---- MODULE Spec2Model ----
(***************************************************************************)
(* Verification model of the onlook sandbox layer.                         *)
(*                                                                         *)
(*  - UndoRedoManager (src/unnamed/part_002, lines 5-187) on top of an     *)
(*    Automerge document handle: the causal history, heads, diff and the   *)
(*    patch replay of undo()/redo().                                       *)
(*  - SessionManager (src/apps/web/client/src/components/sandpack/         *)
(*    SandpackRoot.tsx, lines 81-352): start / reconnect / restartProvider *)
(*    / clear as interleaved asynchronous calls.                           *)
(***************************************************************************)
EXTENDS Integers, Sequences, FiniteSets, TLC

\* ------------------------------------------------------------------ bounds
\* Longest file content (in characters) an edit may produce.
MaxLen == 1
\* Largest number of changes in the document history.
MaxChanges == 4

\* SessionManager calls that may be in flight at once.
MaxCalls == 2
\* Providers createCodeProviderClient may hand out.
MaxProviders == 2

\* Files in the SandpackAdapter's file map, and '/' in a path of it.
MaxFiles == 2
MaxDepth == 3
\* Callbacks registered with a SandpackFileWatcher, and timers it has running.
MaxCallbacks == 2
MaxIntervals == 2
\* Changes in the history of the SandboxManager's document.
MaxHistory == 4
\* Changes the tabs of a shared document make together.
MaxMerged == 4

\* File paths and characters the edits draw from.
PathOrder == <<"/a", "/b">>
Paths == {PathOrder[i] : i \in 1..Len(PathOrder)}
Chars == {"x", "y"}

\* null where heads are expected: the heads of no document (changes are
\* numbered from 1).
Null == <<0>>

VARIABLES
    history,             \* Automerge history: history[k] is the document after change k
    undoStack,           \* UndoRedoManager.undoStack
    redoStack,           \* UndoRedoManager.redoStack
    currentHeads,        \* UndoRedoManager.currentHeads
    isUndoingOrRedoing,  \* UndoRedoManager.isUndoingOrRedoing
    observed,            \* the heads Automerge.getHeads has returned to the manager
    lastOp,              \* the operation that produced this state
    run,                 \* edits and undos of a run "n edits, then undos" since construction
    mark,                \* the state before an undo() that redo() immediately followed
    provider,            \* SessionManager.provider: 0 is null, k > 0 the k-th provider created
    adapter,             \* SessionManager.adapter: 0 null, k > 0 LegacySandboxAdapter(provider k),
                         \*   -1 SandpackAdapter
    isConnecting,        \* SessionManager.isConnecting
    terminalSessions,    \* provider the terminal sessions were created for, 0: map empty
    nProviders,          \* providers created so far
    calls,               \* the asynchronous calls in flight, each at its await
    done,                \* the call that completed in the last step
    files,               \* the file map behind the SandpackAdapter's callbacks
    lastCall,            \* the adapter operation that produced this state
    watcher,             \* the SandpackFileWatcher: its timers, snapshot and callbacks
    tick,                \* the poll tick that produced this state
    base,                \* the file map at the watcher's last tick or start()
    mgr,                 \* the SandboxManager: handle, document history, files,
                         \*   dependencies, and the mirrored file system
    mgrCall,             \* the SandboxManager operation that produced this state
    tabs,                \* the tabs on one document: each one's SandboxManager and the
                         \*   changes its copy of the document holds
    pool                 \* the changes made to that document by any tab

undoVars == <<history, undoStack, redoStack, currentHeads, isUndoingOrRedoing,
              observed, lastOp, run, mark>>

sessVars == <<provider, adapter, isConnecting, terminalSessions, nProviders, calls, done>>

adapterVars == <<files, lastCall>>

watchVars == <<watcher, tick, base>>

mgrVars == <<mgr, mgrCall, tabs, pool>>

vars == <<undoVars, sessVars, adapterVars, watchVars, mgrVars>>

\* ------------------------------------------------- the Automerge document
\* A text value is an Automerge text object: its elements in document order,
\* deleted ones kept as tombstones (live = FALSE).  obj identifies the object:
\* the number of the change that created it.
NoFile == [obj |-> 0, elems |-> <<>>]

Last(s) == s[Len(s)]
Front(s) == SubSeq(s, 1, Len(s) - 1)

RECURSIVE LiveChars(_)
LiveChars(elems) ==
    IF elems = <<>> THEN <<>>
    ELSE IF elems[1].live THEN <<elems[1].ch>> \o LiveChars(Tail(elems))
    ELSE LiveChars(Tail(elems))

\* The string a reader sees for a text object.
Content(t) == LiveChars(t.elems)

\* The path -> content projection of a document version (doc.files).
FileMap(v) == [p \in {q \in Paths : v[q] # NoFile} |-> Content(v[p])]

\* A fresh text object holding the string c, created by change k.
NewText(k, c) ==
    [obj |-> k, elems |-> [i \in 1..Len(c) |-> [id |-> i, ch |-> c[i], live |-> TRUE]]]

\* All strings of at most MaxLen characters.
Strings == UNION {[1..n -> Chars] : n \in 0..MaxLen}

\* Automerge.getHeads(doc): the heads of the document the handle holds.  One
\* writer appends to the history, so the heads are the one latest change.
getHeads(h) == <<Len(h)>>

\* The document as it was at the given heads.
DocAt(h, heads) == h[heads[1]]

\* Whether the element with this id is visible in text t.
LiveIn(t, id) == \E i \in 1..Len(t.elems) : t.elems[i].id = id /\ t.elems[i].live

\* Patches of one text object between two of its states, walking its elements
\* in document order; idx is the index in the text as patched so far.
RECURSIVE TextPatches(_, _, _, _, _, _)
TextPatches(p, full, tf, tt, i, idx) ==
    IF i > Len(full) THEN <<>>
    ELSE LET e == full[i]
             inF == LiveIn(tf, e.id)
             inT == LiveIn(tt, e.id)
         IN  IF inF /\ inT THEN TextPatches(p, full, tf, tt, i + 1, idx + 1)
             ELSE IF inT THEN
                 <<[action |-> "splice", path |-> <<"files", p, idx>>,
                    value |-> <<e.ch>>, length |-> 0]>>
                 \o TextPatches(p, full, tf, tt, i + 1, idx + 1)
             ELSE IF inF THEN
                 <<[action |-> "del", path |-> <<"files", p, idx>>,
                    value |-> <<>>, length |-> 1]>>
                 \o TextPatches(p, full, tf, tt, i + 1, idx)
             ELSE TextPatches(p, full, tf, tt, i + 1, idx)

\* Automerge reports a run of inserted characters as one splice patch and a
\* run of deleted characters as one del patch with a length.
RECURSIVE Coalesce(_)
Coalesce(ps) ==
    IF Len(ps) < 2 THEN ps
    ELSE LET a == ps[1]
             b == ps[2]
             rest == SubSeq(ps, 3, Len(ps))
         IN  IF a.action = "splice" /\ b.action = "splice"
                /\ b.path[3] = a.path[3] + Len(a.value)
             THEN Coalesce(<<[a EXCEPT !.value = a.value \o b.value]>> \o rest)
             ELSE IF a.action = "del" /\ b.action = "del" /\ b.path[3] = a.path[3]
             THEN Coalesce(<<[a EXCEPT !.length = a.length + b.length]>> \o rest)
             ELSE <<a>> \o Coalesce(Tail(ps))

\* The patches of one key of doc.files between two document versions.
KeyPatches(p, tf, tt) ==
    IF tt = NoFile THEN
        IF tf = NoFile THEN <<>>
        ELSE <<[action |-> "del", path |-> <<"files", p>>, value |-> <<>>, length |-> 1]>>
    ELSE IF tf.obj # tt.obj THEN
        \* another object under the key: a put of the empty text, then its content
        <<[action |-> "put", path |-> <<"files", p>>, value |-> <<>>, length |-> 0]>>
        \o (IF Content(tt) = <<>> THEN <<>>
            ELSE <<[action |-> "splice", path |-> <<"files", p, 0>>,
                    value |-> Content(tt), length |-> 0]>>)
    ELSE LET full == IF Len(tf.elems) >= Len(tt.elems) THEN tf.elems ELSE tt.elems
         IN  Coalesce(TextPatches(p, full, tf, tt, 1, 0))

\* Automerge.diff(doc, from, to): the patches from the version vf to the
\* version vt, key by key in key order.
diff(vf, vt) ==
    KeyPatches(PathOrder[1], vf[PathOrder[1]], vt[PathOrder[1]])
    \o KeyPatches(PathOrder[2], vf[PathOrder[2]], vt[PathOrder[2]])

\* Position in elems after which the text's visible index idx lies (0: front).
RECURSIVE ElemPos(_, _, _)
ElemPos(elems, idx, i) ==
    IF idx = 0 THEN i
    ELSE IF i >= Len(elems) THEN Len(elems)
    ELSE IF elems[i + 1].live THEN ElemPos(elems, idx - 1, i + 1)
    ELSE ElemPos(elems, idx, i + 1)

\* Automerge.splice(doc, path, index, 0, value) on a text object: the
\* characters of value become new elements at visible index idx.
InsertAt(t, idx, value) ==
    LET pos == ElemPos(t.elems, idx, 0)
        n == Len(t.elems)
        new == [i \in 1..Len(value) |-> [id |-> n + i, ch |-> value[i], live |-> TRUE]]
    IN  [t EXCEPT !.elems = SubSeq(t.elems, 1, pos) \o new \o SubSeq(t.elems, pos + 1, n)]

\* Automerge.splice(doc, path, index, 1) on a text object: the character at
\* visible index idx becomes a tombstone.
DeleteAt(t, idx) ==
    LET pos == ElemPos(t.elems, idx + 1, 0)
    IN  [t EXCEPT !.elems[pos].live = FALSE]

\* ------------------------------------------------------- UndoRedoManager
\* The handlers are operators on s, the manager's fields and the handle's
\* history as one record, so that they compose as the calls in the code do.
\* d is the document inside a handle.change callback: its files, the number k
\* of the change being made, and whether the callback has changed anything.

\* Automerge.splice(doc, propPath, index, 0, value) of applyPatch's splice branch.
AutomergeSplice(d, propPath, index, value) ==
    LET p == propPath[2]
    IN  [d EXCEPT !.files[p] = InsertAt(@, index, value), !.dirty = TRUE]

\* typeof of the value the loop over path[0 .. length-2] resolves to: doc.files
\* is a map, doc.files[p] is a string primitive.
ParentKind(path) == IF Len(path) = 2 THEN "object" ELSE "string"

applyPatch(d, patch) ==
    LET action == patch.action
        path == patch.path
        key == path[Len(path)]
        current == ParentKind(path)
    IN  IF action = "splice" THEN AutomergeSplice(d, Front(path), key, patch.value)
        ELSE IF action = "put" THEN
            \* current[key] = patch.value: a new text object under the key
            [d EXCEPT !.files[key] = NewText(d.k, patch.value), !.dirty = TRUE]
        ELSE IF action = "del" THEN
            IF current = "object"
            THEN [d EXCEPT !.files[key] = NoFile, !.dirty = TRUE]  \* delete current[key]
            ELSE d  \* current is a string: neither an array nor an object
        ELSE d      \* insert, inc: doc.files holds neither arrays nor counters

RECURSIVE applyPatches(_, _)
applyPatches(d, patches) ==
    IF patches = <<>> THEN d
    ELSE applyPatches(applyPatch(d, patches[1]), Tail(patches))

\* A comparison that looks at the number of heads alone.
areHeadsEqual_LengthOnly(heads1, heads2) == Len(heads1) = Len(heads2)

areHeadsEqual(heads1, heads2) ==
    IF Len(heads1) # Len(heads2) THEN FALSE
    ELSE LET set1 == {heads1[i] : i \in 1..Len(heads1)}
         IN  \A i \in 1..Len(heads2) : heads2[i] \in set1

\* The 'change' listener.
onChange(s) ==
    IF s.isUndoingOrRedoing THEN s
    ELSE LET newHeads == getHeads(s.history)
             s1 == IF s.currentHeads # Null /\ ~areHeadsEqual(s.currentHeads, newHeads)
                   THEN [s EXCEPT !.undoStack = Append(@, s.currentHeads),
                                  !.redoStack = <<>>]
                   ELSE s
         IN  [s1 EXCEPT !.currentHeads = newHeads, !.observed = @ \cup {newHeads}]

\* handle.change(callback): the callback's result becomes a new change and the
\* handle emits 'change' to its listeners before change() returns; a callback
\* that changed nothing makes no change and nothing is emitted.
HandleChange(s, d) ==
    IF d.dirty THEN onChange([s EXCEPT !.history = Append(@, d.files)])
    ELSE s

\* The document a handle.change callback starts from.
Draft(s) == [files |-> Last(s.history), k |-> Len(s.history) + 1, dirty |-> FALSE]

\* applyHeads without raising isUndoingOrRedoing around the mutation.
applyHeads_NoSuppress(s, heads) ==
    LET docHeads == getHeads(s.history)
        patches == diff(DocAt(s.history, docHeads), DocAt(s.history, heads))
        s2 == IF Len(patches) > 0
              THEN HandleChange(s, applyPatches(Draft(s), patches))
              ELSE s
    IN  [s2 EXCEPT !.currentHeads = heads, !.isUndoingOrRedoing = FALSE]

applyHeads(s, heads) ==
    LET s1 == [s EXCEPT !.isUndoingOrRedoing = TRUE]
        docHeads == getHeads(s1.history)
        patches == diff(DocAt(s1.history, docHeads), DocAt(s1.history, heads))
        s2 == IF Len(patches) > 0
              THEN HandleChange(s1, applyPatches(Draft(s1), patches))
              ELSE s1
        s3 == [s2 EXCEPT !.currentHeads = heads]
    IN  [s3 EXCEPT !.isUndoingOrRedoing = FALSE]

\* undo() that pushes the current heads on the redo stack before it looks at
\* the undo stack.
undo_PushFirst(s) ==
    LET s0 == [s EXCEPT !.redoStack = Append(@, s.currentHeads)]
    IN  IF Len(s.undoStack) = 0 THEN s0
        ELSE applyHeads([s0 EXCEPT !.undoStack = Front(@)], Last(s.undoStack))

\* undo().  docSync() returns the document: the handle stays ready.
undo(s) ==
    IF Len(s.undoStack) = 0 THEN s
    ELSE LET previousHeads == Last(s.undoStack)
             s1 == [s EXCEPT !.undoStack = Front(@)]
         IN  IF s1.currentHeads = Null THEN s1
             ELSE applyHeads([s1 EXCEPT !.redoStack = Append(@, s1.currentHeads)],
                             previousHeads)

\* redo() that puts the heads of the document on the undo stack.
redo_PushDocHeads(s) ==
    IF Len(s.redoStack) = 0 THEN s
    ELSE applyHeads([s EXCEPT !.redoStack = Front(@),
                              !.undoStack = Append(@, getHeads(s.history))],
                    Last(s.redoStack))

\* redo().
redo(s) ==
    IF Len(s.redoStack) = 0 THEN s
    ELSE LET nextHeads == Last(s.redoStack)
             s1 == [s EXCEPT !.redoStack = Front(@)]
         IN  IF s1.currentHeads = Null THEN s1
             ELSE applyHeads([s1 EXCEPT !.undoStack = Append(@, s1.currentHeads)],
                             nextHeads)

\* ------------------------------------------------------------ the actions
St == [history |-> history, undoStack |-> undoStack, redoStack |-> redoStack,
       currentHeads |-> currentHeads, isUndoingOrRedoing |-> isUndoingOrRedoing,
       observed |-> observed]

SetSt(s) ==
    /\ history' = s.history
    /\ undoStack' = s.undoStack
    /\ redoStack' = s.redoStack
    /\ currentHeads' = s.currentHeads
    /\ isUndoingOrRedoing' = s.isUndoingOrRedoing
    /\ observed' = s.observed

EmptyMap == [p \in {} |-> <<>>]
NoMark == [phase |-> "none", files |-> EmptyMap, undoStack |-> <<>>, redoStack |-> <<>>,
           len |-> 0]
NoRun == [n |-> -1, m |-> 0]

\* An edit extends a run of edits that no undo or redo has interrupted.
RunAfterEdit == IF run.n >= 0 /\ run.m = 0 THEN [n |-> run.n + 1, m |-> 0] ELSE NoRun
\* An undo extends a run "n edits, then undos" up to the n-th undo.
RunAfterUndo == IF run.n >= 0 /\ run.m < run.n THEN [run EXCEPT !.m = run.m + 1] ELSE NoRun

\* The documents a project may open with.
InitialDocs ==
    {[p \in Paths |-> NoFile],
     [p \in Paths |-> IF p = PathOrder[1] THEN NewText(1, <<"x">>) ELSE NoFile]}

\* The constructor: the handle is ready (initPersistence awaits handle.doc()),
\* so currentHeads are the document's heads.
InitUndo(docs) ==
    /\ \E v \in docs : history = <<v>>
    /\ undoStack = <<>>
    /\ redoStack = <<>>
    /\ currentHeads = getHeads(history)
    /\ isUndoingOrRedoing = FALSE
    /\ observed = {getHeads(history)}
    /\ lastOp = "init"
    /\ run = [n |-> 0, m |-> 0]
    /\ mark = NoMark

Edited(op, d) ==
    /\ SetSt(HandleChange(St, d))
    /\ lastOp' = op
    /\ run' = RunAfterEdit
    /\ mark' = NoMark
    /\ UNCHANGED <<sessVars, adapterVars, watchVars, mgrVars>>

\* An edit that assigns a file's whole content: d.files[path] = content.
WriteFile ==
    /\ Len(history) < MaxChanges
    /\ \E p \in Paths, c \in Strings :
        Edited("write", [Draft(St) EXCEPT !.files[p] = NewText(Draft(St).k, c),
                                          !.dirty = TRUE])

\* An edit that removes a file: delete d.files[path].
DeleteFile ==
    /\ Len(history) < MaxChanges
    /\ \E p \in Paths :
        /\ Last(history)[p] # NoFile
        /\ Edited("delete", [Draft(St) EXCEPT !.files[p] = NoFile, !.dirty = TRUE])

\* An edit that inserts a character into a file's text in place.
InsertText ==
    /\ Len(history) < MaxChanges
    /\ \E p \in Paths, ch \in Chars :
        /\ Last(history)[p] # NoFile
        /\ Len(Content(Last(history)[p])) < MaxLen
        /\ \E idx \in 0..Len(Content(Last(history)[p])) :
            Edited("insert", AutomergeSplice(Draft(St), <<"files", p>>, idx, <<ch>>))

\* An edit that deletes a character of a file's text in place.
DeleteText ==
    /\ Len(history) < MaxChanges
    /\ \E p \in Paths :
        /\ Last(history)[p] # NoFile
        /\ \E idx \in 0..(Len(Content(Last(history)[p])) - 1) :
            Edited("remove", [Draft(St) EXCEPT !.files[p] = DeleteAt(@, idx),
                                               !.dirty = TRUE])

Undo ==
    /\ Len(undoStack) = 0 \/ Len(history) < MaxChanges
    /\ SetSt(undo(St))
    /\ lastOp' = "undo"
    /\ run' = RunAfterUndo
    /\ mark' = IF Len(undoStack) = 0 THEN NoMark
               ELSE [phase |-> "undone", files |-> FileMap(Last(history)),
                     undoStack |-> undoStack, redoStack |-> redoStack,
                     len |-> Len(history)]
    /\ UNCHANGED <<sessVars, adapterVars, watchVars, mgrVars>>

Redo ==
    /\ Len(redoStack) = 0 \/ Len(history) < MaxChanges
    /\ SetSt(redo(St))
    /\ lastOp' = "redo"
    /\ run' = NoRun
    /\ mark' = IF mark.phase = "undone" /\ lastOp = "undo"
               THEN [mark EXCEPT !.phase = "redone"] ELSE NoMark
    /\ UNCHANGED <<sessVars, adapterVars, watchVars, mgrVars>>

\* --------------------------- UndoRedoManager on a handle that may fail
\* ready says that handle.docSync() returns the document; throws that the
\* change callback of applyHeads throws while it applies the patches (the
\* change is then dropped, and nothing is emitted).

\* applyHeads without the finally block.
applyHeadsAt_NoFinally(s, heads, ready, throws) ==
    LET s1 == [s EXCEPT !.isUndoingOrRedoing = TRUE]
        patches == diff(DocAt(s1.history, getHeads(s1.history)), DocAt(s1.history, heads))
    IN  IF ~ready THEN s1
        ELSE IF Len(patches) > 0 /\ throws THEN s1
        ELSE applyHeads(s, heads)

applyHeadsAt(s, heads, ready, throws) ==
    LET s1 == [s EXCEPT !.isUndoingOrRedoing = TRUE]
        patches == diff(DocAt(s1.history, getHeads(s1.history)), DocAt(s1.history, heads))
    IN  IF ~ready THEN [s1 EXCEPT !.isUndoingOrRedoing = FALSE]
        ELSE IF Len(patches) > 0 /\ throws THEN [s1 EXCEPT !.isUndoingOrRedoing = FALSE]
        ELSE applyHeads(s, heads)

\* undo(): the entry is popped before the document and the current heads are
\* looked at.
undoAt(s, ready, throws) ==
    IF Len(s.undoStack) = 0 THEN s
    ELSE LET previousHeads == Last(s.undoStack)
             s1 == [s EXCEPT !.undoStack = Front(@)]
         IN  IF ~ready \/ s1.currentHeads = Null THEN s1
             ELSE applyHeadsAt([s1 EXCEPT !.redoStack = Append(@, s1.currentHeads)],
                               previousHeads, ready, throws)

\* redo(): it looks at the current heads only.
redoAt(s, ready, throws) ==
    IF Len(s.redoStack) = 0 THEN s
    ELSE LET nextHeads == Last(s.redoStack)
             s1 == [s EXCEPT !.redoStack = Front(@)]
         IN  IF s1.currentHeads = Null THEN s1
             ELSE applyHeadsAt([s1 EXCEPT !.undoStack = Append(@, s1.currentHeads)],
                               nextHeads, ready, throws)

\* How a call that found an entry on its stack went: the document or the
\* current heads were missing, the change callback threw (it is called when
\* there are patches to apply), or neither.
Outcome(s, target, ready, throws) ==
    IF ~ready \/ s.currentHeads = Null THEN " unavailable"
    ELSE IF throws /\ Len(diff(DocAt(s.history, getHeads(s.history)),
                               DocAt(s.history, target))) > 0
    THEN " threw"
    ELSE ""

\* The constructor on a handle that may not be ready: currentHeads stays null
\* when docSync() returns nothing.
InitUnready(docs) ==
    /\ \E v \in docs : history = <<v>>
    /\ undoStack = <<>>
    /\ redoStack = <<>>
    /\ currentHeads \in {getHeads(history), Null}
    /\ isUndoingOrRedoing = FALSE
    /\ observed = IF currentHeads = Null THEN {} ELSE {getHeads(history)}
    /\ lastOp = "init"
    /\ run = NoRun
    /\ mark = NoMark

UndoAt ==
    /\ Len(undoStack) = 0 \/ Len(history) < MaxChanges
    /\ \E ready \in BOOLEAN, throws \in BOOLEAN :
           /\ SetSt(undoAt(St, ready, throws))
           /\ lastOp' = IF Len(undoStack) = 0 THEN "undo"
                        ELSE "undo" \o Outcome(St, Last(undoStack), ready, throws)
    /\ run' = NoRun
    /\ mark' = NoMark
    /\ UNCHANGED <<sessVars, adapterVars, watchVars, mgrVars>>

RedoAt ==
    /\ Len(redoStack) = 0 \/ Len(history) < MaxChanges
    /\ \E ready \in BOOLEAN, throws \in BOOLEAN :
           /\ SetSt(redoAt(St, ready, throws))
           /\ lastOp' = IF Len(redoStack) = 0 THEN "redo"
                        ELSE "redo" \o Outcome(St, Last(redoStack), ready, throws)
    /\ run' = NoRun
    /\ mark' = NoMark
    /\ UNCHANGED <<sessVars, adapterVars, watchVars, mgrVars>>

\* -------------------------------------------------------- SessionManager
MAX_RETRIES == 3
RETRY_DELAY_MS == 2000

Calls == 1..MaxCalls

NoError == [src |-> "none", attempt |-> 0]

\* A call slot: the method called (op), the await it stands at (pc), the loop
\* variable and lastError of start(), and what the call has done so far:
\* tries (attemptConnection calls), delays (the timers waited for), okAt (the
\* attempt that succeeded), soft (how the soft reconnect ended), restarted
\* (restartProvider called), destroyed (its destroy() resolved), noAdapter
\* (ping()/runCommand() found no adapter), stream (runCommand() was given a
\* streamCallback).
Idle == [op |-> "idle", pc |-> "idle", attempt |-> 0, lastError |-> NoError,
         tries |-> 0, delays |-> <<>>, okAt |-> 0, soft |-> "none",
         restarted |-> FALSE, destroyed |-> FALSE,
         noAdapter |-> FALSE, stream |-> FALSE]

\* What a settled promise carries: nothing, the boolean of ping(), or the
\* {output, success, error} of runCommand().
NoValue == [kind |-> "none", output |-> "", success |-> FALSE, error |-> "null"]

NoDone == [call |-> Idle, outcome |-> "none", error |-> NoError, value |-> NoValue]

Ss == [provider |-> provider, adapter |-> adapter, isConnecting |-> isConnecting,
       terminalSessions |-> terminalSessions, nProviders |-> nProviders,
       calls |-> calls, done |-> NoDone]

SetSs(ss) ==
    /\ provider' = ss.provider
    /\ adapter' = ss.adapter
    /\ isConnecting' = ss.isConnecting
    /\ terminalSessions' = ss.terminalSessions
    /\ nProviders' = ss.nProviders
    /\ calls' = ss.calls
    /\ done' = ss.done
    /\ UNCHANGED <<undoVars, adapterVars, watchVars, mgrVars>>

\* The call's promise settles: resolved ("returned"), or rejected with err.
Complete(ss, c, outcome, err) ==
    [ss EXCEPT !.done = [call |-> ss.calls[c], outcome |-> outcome, error |-> err,
                         value |-> NoValue],
               !.calls[c] = Idle]

\* The call's promise resolves with a value.
Return(ss, c, value) ==
    [Complete(ss, c, "returned", NoError) EXCEPT !.done.value = value]

\* An exception reaches the end of start()/restartProvider()/clear(), or the
\* catch block of reconnect().
Throw(ss, c, err) ==
    IF ss.calls[c].op = "reconnect"
    THEN Complete([ss EXCEPT !.isConnecting = FALSE], c, "caught", err)
    ELSE Complete(ss, c, "rejected", err)

\* start() up to its first await: the guard, the flag, the first attempt.
start(ss, c) ==
    IF ss.isConnecting \/ ss.provider # 0 THEN Complete(ss, c, "returned", NoError)
    ELSE [ss EXCEPT !.isConnecting = TRUE,
                    !.calls[c].pc = "create",
                    !.calls[c].attempt = 0,
                    !.calls[c].lastError = NoError,
                    !.calls[c].tries = 1]

\* createCodeProviderClient resolved: the rest of attemptConnection up to the
\* await inside createTerminalSessions.
ProviderCreated(ss, c) ==
    LET k == ss.nProviders + 1
    IN  [ss EXCEPT !.nProviders = k,
                   !.provider = k,
                   !.adapter = k,
                   !.terminalSessions = k,
                   !.calls[c].pc = "terminals"]

\* attemptConnection resolved: isConnecting = false; return.
AttemptSucceeded(ss, c) ==
    Complete([ss EXCEPT !.isConnecting = FALSE,
                        !.calls[c].okAt = ss.calls[c].tries],
             c, "returned", NoError)

\* A loop that retries once more after the last attempt.
ShouldRetry_Inclusive(attempt) == attempt <= MAX_RETRIES

\* The retry loop goes on after a failed attempt.
ShouldRetry(attempt) == attempt < MAX_RETRIES

\* The delay before the next attempt.
RetryDelay(attempt) == RETRY_DELAY_MS

\* attemptConnection rejected: the catch block of the retry loop and, after
\* the last attempt, the code after the loop.
AttemptFailed(ss, c) ==
    LET call == ss.calls[c]
        err == [src |-> "connect", attempt |-> call.attempt + 1]
        s1 == [ss EXCEPT !.provider = 0, !.calls[c].lastError = err]
    IN  IF ShouldRetry(call.attempt)
        THEN [s1 EXCEPT !.calls[c].pc = "delay",
                        !.calls[c].delays = Append(@, RetryDelay(call.attempt))]
        ELSE Throw([s1 EXCEPT !.isConnecting = FALSE], c, err)

\* The timer fired: attempt++ and the next attemptConnection().
RetryAttempt(ss, c) ==
    [ss EXCEPT !.calls[c].pc = "create",
               !.calls[c].attempt = @ + 1,
               !.calls[c].tries = @ + 1]

\* restartProvider() up to its first await.
restartProvider(ss, c) ==
    IF ss.provider = 0 THEN Complete(ss, c, "returned", NoError)
    ELSE [ss EXCEPT !.calls[c].pc = "destroy"]

\* provider.destroy() resolved in restartProvider(): the fields are reset and
\* start() runs.
ProviderDestroyed(ss, c) ==
    start([ss EXCEPT !.provider = 0, !.adapter = 0, !.calls[c].destroyed = TRUE], c)

\* The second ping() of reconnect() has answered.
AfterPing2(ss, c, ok) ==
    IF ok THEN Complete([ss EXCEPT !.calls[c].soft = "ok"], c, "returned", NoError)
    ELSE restartProvider([ss EXCEPT !.calls[c].soft = "pingfail",
                                !.calls[c].restarted = TRUE], c)

\* provider.reconnect() resolved (or there was no provider to call it on):
\* the second ping().  ping() answers false without a provider and true
\* without an adapter, awaiting nothing; else it awaits adapter.runCommand.
AfterSoftReconnect(ss, c) ==
    IF ss.provider = 0 THEN AfterPing2(ss, c, FALSE)
    ELSE IF ss.adapter = 0 THEN AfterPing2(ss, c, TRUE)
    ELSE [ss EXCEPT !.calls[c].pc = "ping2"]

\* The first ping() of reconnect() has answered.
AfterPing1(ss, c, ok) ==
    IF ok THEN Complete(ss, c, "returned", NoError)
    ELSE IF ss.provider = 0 THEN AfterSoftReconnect(ss, c)
    ELSE [ss EXCEPT !.calls[c].pc = "soft"]

\* provider.reconnect() rejected: the catch block of reconnect().
SoftReconnectThrew(ss, c) ==
    Throw([ss EXCEPT !.calls[c].soft = "threw"], c, [src |-> "reconnect", attempt |-> 0])

\* reconnect() up to its first await.
reconnect(ss, c) ==
    IF ss.provider = 0 THEN Complete(ss, c, "returned", NoError)
    ELSE IF ss.adapter = 0 THEN AfterPing1(ss, c, TRUE)
    ELSE [ss EXCEPT !.calls[c].pc = "ping1"]

\* The end of clear(), after the provider's destroy().
ClearFields(ss, c) ==
    Complete([ss EXCEPT !.provider = 0, !.adapter = 0, !.isConnecting = FALSE,
                        !.terminalSessions = 0],
             c, "returned", NoError)

\* clear() up to its first await.
clear(ss, c) ==
    IF ss.provider # 0 THEN [ss EXCEPT !.calls[c].pc = "cleardestroy"]
    ELSE ClearFields(ss, c)

\* startSandpackSession(): it awaits nothing.
startSandpackSession(ss) ==
    IF ss.adapter # 0 THEN ss
    ELSE [ss EXCEPT !.provider = 0, !.adapter = -1, !.isConnecting = FALSE]

\* The boolean ping() resolves with.
Bool(b) == [NoValue EXCEPT !.kind = "bool", !.success = b]

\* A ping() that lets the adapter's error through.
pingFailed_Rethrow(ss, c) ==
    Throw([ss EXCEPT !.calls[c].lastError = [src |-> "adapter", attempt |-> 0]], c,
          [src |-> "adapter", attempt |-> 0])

\* adapter.runCommand rejected inside ping(): the catch block answers false.
pingFailed(ss, c) ==
    Return([ss EXCEPT !.calls[c].lastError = [src |-> "adapter", attempt |-> 0]], c,
           Bool(FALSE))

\* adapter.runCommand resolved inside ping().
pingSucceeded(ss, c) == Return(ss, c, Bool(TRUE))

\* ping() up to its await: false without a provider; without an adapter the
\* optional call awaits undefined and the answer is true.
ping(ss, c) ==
    IF ss.provider = 0
    THEN Return([ss EXCEPT !.calls[c].noAdapter = (ss.adapter = 0)], c, Bool(FALSE))
    ELSE IF ss.adapter = 0
    THEN Return([ss EXCEPT !.calls[c].noAdapter = TRUE], c, Bool(TRUE))
    ELSE [ss EXCEPT !.calls[c].pc = "pingrun"]

\* The messages runCommand() reports.
NoAdapterMessage == "No adapter found in runCommand"
AdapterMessage == "adapter error"
CallbackMessage == "callback error"
\* What runCommand() reports for a thrown value that is not an Error.
UnknownMessage == "Unknown error occurred"

\* The message of a caught value: error.message of an Error, else the
\* fixed text.
MessageOf(thrown) == IF thrown.isError THEN thrown.message ELSE UnknownMessage

\* The catch block of runCommand().
runCommandFailed(ss, c, thrown) ==
    Return([ss EXCEPT !.calls[c].lastError = [src |-> thrown.src, attempt |-> 0]], c,
           [kind |-> "result", output |-> "", success |-> FALSE,
            error |-> MessageOf(thrown)])

\* adapter.runCommand resolved inside runCommand(): the output goes to the
\* streamCallback (which may throw) and into the result.
runCommandSucceeded(ss, c, output, cbThrows) ==
    IF ss.calls[c].stream /\ cbThrows
    THEN runCommandFailed(ss, c, [src |-> "callback", isError |-> TRUE,
                                  message |-> CallbackMessage])
    ELSE Return(ss, c, [kind |-> "result", output |-> output, success |-> TRUE,
                        error |-> "null"])

\* runCommand() up to its await: stream says whether a streamCallback was
\* given and whether its first call throws.  The command text (with the
\* error suppression appended or not) goes to the adapter and to the
\* callback only; no field of the SessionManager depends on it.
runCommand(ss, c, stream) ==
    IF ss.adapter = 0
    THEN runCommandFailed([ss EXCEPT !.calls[c].noAdapter = TRUE], c,
                          [src |-> "noadapter", isError |-> TRUE,
                           message |-> NoAdapterMessage])
    ELSE LET s1 == [ss EXCEPT !.calls[c].stream = (stream # "none")]
         IN  IF stream = "throws"
             THEN runCommandFailed(s1, c, [src |-> "callback", isError |-> TRUE,
                                           message |-> CallbackMessage])
             ELSE [s1 EXCEPT !.calls[c].pc = "run"]

\* --------------------------------------------- the SessionManager actions
InitSession ==
    /\ provider = 0
    /\ adapter = 0
    /\ isConnecting = FALSE
    /\ terminalSessions = 0
    /\ nProviders = 0
    /\ calls = [c \in Calls |-> Idle]
    /\ done = NoDone

Enter(c, op) == [Ss EXCEPT !.calls[c].op = op]

CallStart ==
    \E c \in Calls : calls[c].op = "idle" /\ SetSs(start(Enter(c, "start"), c))

CallReconnect ==
    \E c \in Calls : calls[c].op = "idle" /\ SetSs(reconnect(Enter(c, "reconnect"), c))

CallRestartProvider ==
    \E c \in Calls : calls[c].op = "idle" /\ SetSs(restartProvider(Enter(c, "restart"), c))

CallClear ==
    \E c \in Calls : calls[c].op = "idle" /\ SetSs(clear(Enter(c, "clear"), c))

CallStartSandpackSession ==
    \E ss \in {startSandpackSession(Ss)} : SetSs(ss)

CallPing ==
    \E c \in Calls : calls[c].op = "idle" /\ SetSs(ping(Enter(c, "ping"), c))

CallRunCommand ==
    \E c \in Calls, stream \in {"none", "ok", "throws"} :
        /\ calls[c].op = "idle"
        /\ SetSs(runCommand(Enter(c, "runCommand"), c, stream))

PingRunResolved ==
    \E c \in Calls : calls[c].pc = "pingrun" /\ SetSs(pingSucceeded(Ss, c))

PingRunRejected ==
    \E c \in Calls : calls[c].pc = "pingrun" /\ SetSs(pingFailed(Ss, c))

RunResolved ==
    \E c \in Calls, cbThrows \in BOOLEAN :
        /\ calls[c].pc = "run"
        /\ SetSs(runCommandSucceeded(Ss, c, "out", cbThrows))

\* adapter.runCommand rejected with an Error, or with a value that is none.
RunRejected ==
    \E c \in Calls, isError \in BOOLEAN :
        /\ calls[c].pc = "run"
        /\ SetSs(runCommandFailed(Ss, c, [src |-> "adapter", isError |-> isError,
                                          message |-> AdapterMessage]))

CreateResolved ==
    \E c \in Calls :
        /\ calls[c].pc = "create"
        /\ nProviders < MaxProviders
        /\ SetSs(ProviderCreated(Ss, c))

CreateRejected ==
    \E c \in Calls : calls[c].pc = "create" /\ SetSs(AttemptFailed(Ss, c))

TerminalsReady ==
    \E c \in Calls : calls[c].pc = "terminals" /\ SetSs(AttemptSucceeded(Ss, c))

DelayElapsed ==
    \E c \in Calls : calls[c].pc = "delay" /\ SetSs(RetryAttempt(Ss, c))

Ping1Answered ==
    \E c \in Calls, ok \in BOOLEAN : calls[c].pc = "ping1" /\ SetSs(AfterPing1(Ss, c, ok))

SoftReconnectResolved ==
    \E c \in Calls : calls[c].pc = "soft" /\ SetSs(AfterSoftReconnect(Ss, c))

SoftReconnectRejected ==
    \E c \in Calls : calls[c].pc = "soft" /\ SetSs(SoftReconnectThrew(Ss, c))

Ping2Answered ==
    \E c \in Calls, ok \in BOOLEAN : calls[c].pc = "ping2" /\ SetSs(AfterPing2(Ss, c, ok))

DestroyResolved ==
    \E c \in Calls : calls[c].pc = "destroy" /\ SetSs(ProviderDestroyed(Ss, c))

DestroyRejected ==
    \E c \in Calls :
        /\ calls[c].pc \in {"destroy", "cleardestroy"}
        /\ SetSs(Throw(Ss, c, [src |-> "destroy", attempt |-> 0]))

ClearDestroyResolved ==
    \E c \in Calls : calls[c].pc = "cleardestroy" /\ SetSs(ClearFields(Ss, c))


\* ---------------------------------------------------------- SandpackAdapter
\* Paths, commands and package names are strings the adapter takes apart, so
\* they are sequences of characters.  File contents are opaque to every
\* operation but the package install, which parses and prints JSON: a content
\* is a text (that JSON.parse rejects), or the text of a JSON document
\* printed with some indentation.
Max(S) == CHOOSE i \in S : \A j \in S : j <= i
Min(S) == CHOOSE i \in S : \A j \in S : i <= j

\* s.startsWith(pre), s.endsWith(suf)
StartsWith(s, pre) == Len(pre) <= Len(s) /\ SubSeq(s, 1, Len(pre)) = pre
EndsWith(s, suf) == Len(suf) <= Len(s) /\ SubSeq(s, Len(s) - Len(suf) + 1, Len(s)) = suf

\* s.slice(from): from counts from 0, a negative from counts from the end.
Slice(s, from) ==
    IF from < 0 THEN SubSeq(s, Max({Len(s) + from, 0}) + 1, Len(s))
    ELSE SubSeq(s, from + 1, Len(s))

\* s.lastIndexOf(ch): the position counted from 0, or -1.
lastIndexOf(s, ch) ==
    LET I == {i \in 1..Len(s) : s[i] = ch}
    IN  IF I = {} THEN -1 ELSE Max(I) - 1

\* s.split(ch)
RECURSIVE Split(_, _)
Split(s, ch) ==
    LET I == {i \in 1..Len(s) : s[i] = ch}
    IN  IF I = {} THEN <<s>>
        ELSE <<SubSeq(s, 1, Min(I) - 1)>> \o Split(SubSeq(s, Min(I) + 1, Len(s)), ch)

\* s.toLowerCase(), for the capital letters the model's paths use.
LowerChar(c) ==
    CASE c = "P" -> "p" [] c = "N" -> "n" [] c = "G" -> "g" [] OTHER -> c
toLowerCase(s) == [i \in 1..Len(s) |-> LowerChar(s[i])]

BINARY_EXTENSIONS ==
    {<<".", "p", "n", "g">>,
     <<".", "j", "p", "g">>,
     <<".", "j", "p", "e", "g">>,
     <<".", "g", "i", "f">>,
     <<".", "b", "m", "p">>,
     <<".", "i", "c", "o">>,
     <<".", "s", "v", "g">>,
     <<".", "w", "e", "b", "p">>,
     <<".", "a", "v", "i", "f">>,
     <<".", "m", "p", "3">>,
     <<".", "m", "p", "4">>,
     <<".", "w", "a", "v">>,
     <<".", "o", "g", "g">>,
     <<".", "w", "e", "b", "m">>,
     <<".", "w", "o", "f", "f">>,
     <<".", "w", "o", "f", "f", "2">>,
     <<".", "t", "t", "f">>,
     <<".", "e", "o", "t">>,
     <<".", "o", "t", "f">>,
     <<".", "z", "i", "p">>,
     <<".", "t", "a", "r">>,
     <<".", "g", "z">>,
     <<".", "7", "z">>,
     <<".", "r", "a", "r">>,
     <<".", "p", "d", "f">>,
     <<".", "e", "x", "e">>,
     <<".", "d", "l", "l">>,
     <<".", "s", "o">>,
     <<".", "d", "y", "l", "i", "b">>}

isBinaryPath(path) ==
    LET ext == toLowerCase(Slice(path, lastIndexOf(path, ".")))
    IN  ext \in BINARY_EXTENSIONS

\* A normalisation that leaves its path as given.
normalizePath_AsGiven(p) == p

normalizePath(p) == IF ~StartsWith(p, <<"/">>) THEN <<"/">> \o p ELSE p

\* normalized.endsWith('/') ? normalized : normalized + '/'
DirPrefix(normalized) ==
    IF EndsWith(normalized, <<"/">>) THEN normalized ELSE normalized \o <<"/">>

\* JSON documents: null stands for every document that is no object; an
\* object has scalar fields and may have a dependencies table.
NoJson == [type |-> "none", scalars |-> EmptyMap, hasDeps |-> FALSE,
           dependencies |-> EmptyMap]
JsonNull == [NoJson EXCEPT !.type = "null"]
JsonObject(scalars, hasDeps, dependencies) ==
    [type |-> "object", scalars |-> scalars, hasDeps |-> hasDeps,
     dependencies |-> dependencies]

\* File contents.
Text(t) == [kind |-> "text", text |-> t, json |-> NoJson, indent |-> 0]
JsonText(j, indent) == [kind |-> "json", text |-> "", json |-> j, indent |-> indent]
\* A Uint8Array, and the undefined a missing key reads as.
Bytes == [kind |-> "bytes", text |-> "", json |-> NoJson, indent |-> 0]
Undefined == [kind |-> "undefined", text |-> "", json |-> NoJson, indent |-> 0]

\* The file map: files[path] = content, delete files[path].
Put(f, k, v) == [x \in (DOMAIN f) \cup {k} |-> IF x = k THEN v ELSE f[x]]
Remove(f, k) == [x \in (DOMAIN f) \ {k} |-> f[x]]
\* files[k]: a missing key reads as undefined.
Lookup(f, k) == IF k \in DOMAIN f THEN f[k] ELSE Undefined

\* One callback invocation.
Invocation(cb, path, content, deps) ==
    [cb |-> cb, path |-> path, content |-> content, deps |-> deps]

\* The callbacks (SandboxManager.initSandpackMode, the test harness): they
\* write to the file map.  env is the adapter's surroundings during one
\* operation: the file map, whether the map getFiles() returned stays the
\* object the callbacks write to (shared) or is replaced by a fresh copy at
\* the first write (the 'change' listener of a ready handle), the order
\* Object.keys lists the keys in, and the invocations so far.
onFileUpdate(env, path, content) ==
    [env EXCEPT !.files = Put(@, path, content),
                !.log = Append(@, Invocation("onFileUpdate", path, content, EmptyMap))]

onFileDelete(env, path) ==
    [env EXCEPT !.files = Remove(@, path),
                !.log = Append(@, Invocation("onFileDelete", path, Undefined, EmptyMap))]

onDependenciesChanged(env, deps) ==
    [env EXCEPT !.log = Append(@, Invocation("onDependenciesChanged", <<>>, Undefined, deps))]

\* What the map the operation got from getFiles() at its start (snap) shows
\* now.
Captured(env, snap) == IF env.shared THEN env.files ELSE snap

\* The operation's promise settles.
Void == "void"
Resolve(env, value) ==
    [env EXCEPT !.result = [outcome |-> "resolved", value |-> value, error |-> "none"]]
Reject(env, error) ==
    [env EXCEPT !.result = [outcome |-> "rejected", value |-> Void, error |-> error]]

\* A readFile() that looks the normalized path up and nothing else.
readFile_ExactOnly(env, path) ==
    IF normalizePath(path) \in DOMAIN env.files
    THEN Resolve(env, env.files[normalizePath(path)])
    ELSE Reject(env, "File not found")

readFile(env, path) ==
    LET normalized == normalizePath(path)
        files_ == env.files
        withoutSlash == IF StartsWith(normalized, <<"/">>) THEN Slice(normalized, 1)
                        ELSE normalized
    IN  IF normalized \in DOMAIN files_ THEN Resolve(env, files_[normalized])
        ELSE IF withoutSlash \in DOMAIN files_ THEN Resolve(env, files_[withoutSlash])
        ELSE Reject(env, "File not found")

\* A writeFile() that checks the content only.
writeFile_AnyPath(env, path, content) ==
    IF content.kind = "bytes" THEN Resolve(env, Void)
    ELSE Resolve(onFileUpdate(env, normalizePath(path), content), Void)

writeFile(env, path, content) ==
    LET normalized == normalizePath(path)
    IN  IF content.kind = "bytes" THEN Resolve(env, Void)
        ELSE IF isBinaryPath(normalized) THEN Resolve(env, Void)
        ELSE Resolve(onFileUpdate(env, normalized, content), Void)

\* The loop of deleteFiles() over Object.keys(files).
RECURSIVE DeleteUnder(_, _, _)
DeleteUnder(env, keys, dirPrefix) ==
    IF keys = <<>> THEN env
    ELSE DeleteUnder(IF StartsWith(Head(keys), dirPrefix)
                     THEN onFileDelete(env, Head(keys)) ELSE env,
                     Tail(keys), dirPrefix)

\* A deleteFiles() that matches the path itself as the prefix.
deleteFiles_BarePrefix(env, path) ==
    LET normalized == normalizePath(path)
    IN  IF normalized \in DOMAIN env.files
        THEN Resolve(onFileDelete(env, normalized), Void)
        ELSE Resolve(DeleteUnder(env, env.keys, normalized), Void)

deleteFiles(env, path) ==
    LET normalized == normalizePath(path)
    IN  IF normalized \in DOMAIN env.files
        THEN Resolve(onFileDelete(env, normalized), Void)
        ELSE Resolve(DeleteUnder(env, env.keys, DirPrefix(normalized)), Void)

\* The directories a file path implies: the prefixes made of parts[1] ..
\* parts[i], for i below the last part (parts[0] is left out).
DirsOf(filePath) ==
    LET parts == Split(filePath, "/")
        Prefix(n) == [i \in 1..n |-> parts[i + 1]]
        Join(segs) == LET F[i \in 0..Len(segs)] ==
                              IF i = 0 THEN <<>> ELSE F[i - 1] \o <<"/">> \o segs[i]
                      IN  F[Len(segs)]
    IN  {Join(Prefix(n)) : n \in 1..(Len(parts) - 2)}

getDirectories(files_) == {<<"/">>} \cup UNION {DirsOf(k) : k \in DOMAIN files_}

\* The loop of listFiles(): entries is the Map's values in insertion order.
RECURSIVE ListUnder(_, _, _, _)
ListUnder(keys, dir, allDirs, entries) ==
    IF keys = <<>> THEN entries
    ELSE LET normalizedFile == normalizePath(Head(keys))
             relative == Slice(normalizedFile, Len(dir))
             firstSegment == Split(relative, "/")[1]
             fullChildPath == dir \o firstSegment
             entry == [name |-> firstSegment,
                       type |-> IF fullChildPath \in allDirs THEN "directory" ELSE "file",
                       isSymlink |-> FALSE]
         IN  ListUnder(Tail(keys), dir, allDirs,
                 IF /\ StartsWith(normalizedFile, dir)
                    /\ firstSegment # <<>>
                    /\ \A i \in 1..Len(entries) : entries[i].name # firstSegment
                 THEN Append(entries, entry) ELSE entries)

listFiles(env, path) ==
    LET dir == DirPrefix(normalizePath(path))
    IN  Resolve(env, ListUnder(env.keys, dir, getDirectories(env.files), <<>>))

\* The loop of renameFile() over Object.keys(files): each child is written
\* under the new prefix with the content the captured map shows for it, then
\* deleted.
RECURSIVE MoveChildren(_, _, _, _, _)
MoveChildren(env, snap, keys, dirPrefix, newDirPrefix) ==
    IF keys = <<>> THEN env
    ELSE LET filePath == Head(keys)
             newFilePath == newDirPrefix \o Slice(filePath, Len(dirPrefix))
             seen == Captured(env, snap)
             content == IF filePath \in DOMAIN seen THEN seen[filePath] ELSE Undefined
         IN  MoveChildren(IF StartsWith(filePath, dirPrefix)
                          THEN onFileDelete(onFileUpdate(env, newFilePath, content),
                                            filePath)
                          ELSE env,
                          snap, Tail(keys), dirPrefix, newDirPrefix)

renameFile(env, oldPath, newPath) ==
    LET normalizedOld == normalizePath(oldPath)
        normalizedNew == normalizePath(newPath)
        files_ == env.files
    IN  IF normalizedOld \in DOMAIN files_
        THEN Resolve(onFileDelete(onFileUpdate(env, normalizedNew, files_[normalizedOld]),
                                  normalizedOld), Void)
        ELSE Resolve(MoveChildren(env, files_, env.keys, DirPrefix(normalizedOld),
                                  DirPrefix(normalizedNew)), Void)

\* A statFile() that takes every path for a directory.
statFile_AlwaysDirectory(env, path) ==
    IF normalizePath(path) \in DOMAIN env.files THEN Resolve(env, [type |-> "file"])
    ELSE Resolve(env, [type |-> "directory"])

statFile(env, path) ==
    LET normalized == normalizePath(path)
        dirPrefix == DirPrefix(normalized)
    IN  IF normalized \in DOMAIN env.files THEN Resolve(env, [type |-> "file"])
        ELSE IF \E filePath \in DOMAIN env.files : StartsWith(filePath, dirPrefix)
        THEN Resolve(env, [type |-> "directory"])
        ELSE Reject(env, "Path not found")


PackageJsonPath == <<"/", "p", "a", "c", "k", "a", "g", "e", ".", "j", "s", "o", "n">>
PackageJsonBare == <<"p", "a", "c", "k", "a", "g", "e", ".", "j", "s", "o", "n">>

\* ------------------------------------------- SandpackAdapter.runCommand
\* The words and texts of runCommand().
NpmWord == <<"n", "p", "m">>
InstallWord == <<"i", "n", "s", "t", "a", "l", "l">>
IWord == <<"i">>
AddWord == <<"a", "d", "d">>
SaveFlag == <<"-", "-", "s", "a", "v", "e">>
SaveDevFlag == <<"-", "-", "s", "a", "v", "e", "-", "d", "e", "v">>
SFlag == <<"-", "S">>
DFlag == <<"-", "D">>
LatestLiteral == <<"l", "a", "t", "e", "s", "t">>
AddedHead == <<"\n", "\n", "a", "d", "d", "e", "d", " ">>
AddedTail == <<" ", "p", "a", "c", "k", "a", "g", "e", "(", "s", ")", "\n">>
PwdCommand == <<"p", "w", "d">>
PwdOutput ==
    <<"/", "p", "r", "o", "j", "e", "c", "t", "/", "s", "a", "n", "d", "b", "o", "x",
      "\n">>
EchoPrefix == <<"e", "c", "h", "o", " ">>
LsCommand == <<"l", "s">>
LsPrefix == <<"l", "s", " ">>
CatPrefix == <<"c", "a", "t", " ">>
CatErrorHead == <<"c", "a", "t", ":", " ">>
CatErrorTail ==
    <<":", " ", "N", "o", " ", "s", "u", "c", "h", " ", "f", "i", "l", "e", " ", "o",
      "r", " ", "d", "i", "r", "e", "c", "t", "o", "r", "y", "\n">>
PolyfillHead ==
    <<"[", "s", "a", "n", "d", "b", "o", "x", "]", " ", "C", "o", "m", "m", "a", "n",
      "d", " ", "e", "x", "e", "c", "u", "t", "e", "d", " ", "(", "b", "r", "o", "w",
      "s", "e", "r", " ", "p", "o", "l", "y", "f", "i", "l", "l", ")", ":", " ">>

\* \s and . of the regular expressions, for the characters of the model.
IsSpace(c) == c \in {" ", "\n"}
IsDot(c) == c # "\n"

\* The whitespace characters from position i on.
RECURSIVE SpaceRun(_, _)
SpaceRun(s, i) == IF i <= Len(s) /\ IsSpace(s[i]) THEN 1 + SpaceRun(s, i + 1) ELSE 0

\* The word w stands in s at position i.
At(s, i, w) == i + Len(w) - 1 <= Len(s) /\ SubSeq(s, i, i + Len(w) - 1) = w

\* The first alternative that matched (a position), or 0.
FirstNonZero(tries) ==
    LET I == {i \in 1..Len(tries) : tries[i] # 0}
    IN  IF I = {} THEN 0 ELSE tries[Min(I)]

\* (.+) can start at position e.
DotAt(s, e) == e <= Len(s) /\ IsDot(s[e])

\* \s+(.+) from position p: \s+ takes as many characters as leave one for
\* (.+).  The answer is where (.+) starts, or 0.
AfterSpaces(s, p) ==
    LET ok == {c \in 1..SpaceRun(s, p) : DotAt(s, p + c)}
    IN  IF ok = {} THEN 0 ELSE p + Max(ok)

\* (?:--save\s+|--save-dev\s+|-[SD]\s+)(.+) from position m.
FlagCapture(s, m) ==
    FirstNonZero(<<IF At(s, m, SaveFlag) THEN AfterSpaces(s, m + Len(SaveFlag)) ELSE 0,
                   IF At(s, m, SaveDevFlag) THEN AfterSpaces(s, m + Len(SaveDevFlag)) ELSE 0,
                   IF At(s, m, SFlag) \/ At(s, m, DFlag) THEN AfterSpaces(s, m + Len(SFlag)) ELSE 0>>)

\* (?:...)?(.+) from position m: with the flag if that matches, else without.
RestAt(s, m) ==
    IF FlagCapture(s, m) # 0 THEN FlagCapture(s, m)
    ELSE IF DotAt(s, m) THEN m ELSE 0

\* \s+(?:...)?(.+) from position p, just after the verb.
AfterVerb(s, p) ==
    LET ok == {b \in 1..SpaceRun(s, p) : RestAt(s, p + b) # 0}
    IN  IF ok = {} THEN 0 ELSE RestAt(s, p + Max(ok))

\* (?:install|i|add)\s+... from position k.
VerbAt(s, k) ==
    FirstNonZero(<<IF At(s, k, InstallWord) THEN AfterVerb(s, k + Len(InstallWord)) ELSE 0,
                   IF At(s, k, IWord) THEN AfterVerb(s, k + Len(IWord)) ELSE 0,
                   IF At(s, k, AddWord) THEN AfterVerb(s, k + Len(AddWord)) ELSE 0>>)

\* npm\s+(?:install|i|add)... from position i.
NpmAt(s, i) ==
    IF ~At(s, i, NpmWord) THEN 0
    ELSE LET ok == {a \in 1..SpaceRun(s, i + Len(NpmWord)) : VerbAt(s, i + Len(NpmWord) + a) # 0}
         IN  IF ok = {} THEN 0 ELSE VerbAt(s, i + Len(NpmWord) + Max(ok))

\* command.match(/npm\s+(?:install|i|add)\s+(?:--save\s+|--save-dev\s+|-[SD]\s+)?(.+)/):
\* the leftmost match; group1 runs to the end of the line.
npmInstallMatch(command) ==
    LET I == {i \in 1..Len(command) : NpmAt(command, i) # 0}
        e == NpmAt(command, Min(I))
        stops == {j \in e..Len(command) : ~IsDot(command[j])}
    IN  IF I = {} THEN [matched |-> FALSE, group1 |-> <<>>]
        ELSE [matched |-> TRUE,
              group1 |-> SubSeq(command, e, IF stops = {} THEN Len(command)
                                            ELSE Min(stops) - 1)]

\* s.trim()
Trim(s) ==
    LET I == {i \in 1..Len(s) : ~IsSpace(s[i])}
    IN  IF I = {} THEN <<>> ELSE SubSeq(s, Min(I), Max(I))

\* s.split(/\s+/).filter(Boolean)
RECURSIVE Words(_)
Words(s) ==
    LET t == Trim(s)
        sp == {i \in 1..Len(t) : IsSpace(t[i])}
    IN  IF t = <<>> THEN <<>>
        ELSE IF sp = {} THEN <<t>>
        ELSE <<SubSeq(t, 1, Min(sp) - 1)>> \o Words(SubSeq(t, Min(sp), Len(t)))

\* The decimal digits of n.
RECURSIVE Digits(_)
Digits(n) ==
    LET d == <<"0", "1", "2", "3", "4", "5", "6", "7", "8", "9">>
    IN  IF n < 10 THEN <<d[n + 1]>> ELSE Digits(n \div 10) \o <<d[(n % 10) + 1]>>

\* lines.join('\n')
RECURSIVE JoinLines(_)
JoinLines(lines) ==
    IF lines = <<>> THEN <<>>
    ELSE IF Len(lines) = 1 THEN lines[1]
    ELSE lines[1] \o <<"\n">> \o JoinLines(Tail(lines))

\* The characters of the model in the order of their code units, and the
\* order Array.prototype.sort() puts strings in.
CharOrder ==
    <<"\n", " ", "'", "-", ".", "/", "1", "2", "@", "G", "N", "P",
      "a", "b", "c", "d", "e", "g", "h", "i", "j", "k", "l", "m", "n", "o", "p",
      "r", "s", "t", "u", "v", "w", "x">>
Code(c) == CHOOSE i \in 1..Len(CharOrder) : CharOrder[i] = c

RECURSIVE Before(_, _)
Before(a, b) ==
    IF a = <<>> THEN b # <<>>
    ELSE IF b = <<>> THEN FALSE
    ELSE IF Head(a) = Head(b) THEN Before(Tail(a), Tail(b))
    ELSE Code(Head(a)) < Code(Head(b))

RECURSIVE Sorted(_)
Sorted(S) ==
    IF S = {} THEN <<>>
    ELSE LET least == CHOOSE a \in S : \A b \in S \ {a} : Before(a, b)
         IN  <<least>> \o Sorted(S \ {least})


DefaultManifest ==
    JsonObject([name |-> "sandbox", version |-> "1.0.0"], TRUE, EmptyMap)

\* The loop of handleNpmInstall() over the package tokens: acc holds the
\* dependencies table and the installed list.
RECURSIVE InstallEach(_, _)
InstallEach(packages, acc) ==
    IF packages = <<>> THEN acc
    ELSE LET pkg == Head(packages)
             atIndex == lastIndexOf(pkg, "@")
             name == IF atIndex > 0 THEN SubSeq(pkg, 1, atIndex) ELSE pkg
             version == IF atIndex > 0 THEN Slice(pkg, atIndex + 1) ELSE LatestLiteral
         IN  InstallEach(Tail(packages),
                 IF StartsWith(pkg, <<"-">>) THEN acc
                 ELSE [dependencies |-> Put(acc.dependencies, name, version),
                       installed |-> Append(acc.installed, name \o <<"@">> \o version)])

\* A handleNpmInstall() that starts from an empty dependencies table.
handleNpmInstall_FreshTable(env, packagesStr) ==
    LET acc == InstallEach(Words(packagesStr),
                           [dependencies |-> EmptyMap, installed |-> <<>>])
        e1 == onFileUpdate(env, PackageJsonPath,
                  JsonText([DefaultManifest EXCEPT !.dependencies = acc.dependencies], 2))
    IN  Resolve(onDependenciesChanged(e1, acc.dependencies), [output |-> <<>>])

handleNpmInstall(env, packagesStr) ==
    LET files_ == env.files
        existing == IF PackageJsonPath \in DOMAIN files_ THEN files_[PackageJsonPath]
                    ELSE IF PackageJsonBare \in DOMAIN files_ THEN files_[PackageJsonBare]
                    ELSE Undefined
        truthy == existing.kind = "json" \/ (existing.kind = "text" /\ existing.text # "")
        packageJson == IF truthy /\ existing.kind = "json" THEN existing.json
                       ELSE DefaultManifest
        table == IF packageJson.hasDeps THEN packageJson.dependencies ELSE EmptyMap
        acc == InstallEach(Words(packagesStr), [dependencies |-> table, installed |-> <<>>])
        updated == [packageJson EXCEPT !.hasDeps = TRUE, !.dependencies = acc.dependencies]
        e1 == onFileUpdate(env, PackageJsonPath, JsonText(updated, 2))
        e2 == onDependenciesChanged(e1, acc.dependencies)
        lines == [i \in 1..Len(acc.installed) |-> <<"+", " ">> \o acc.installed[i]]
    IN  IF packageJson.type # "object" THEN Reject(env, "TypeError")
        ELSE Resolve(e2, [output |-> JoinLines(lines) \o AddedHead
                                     \o Digits(Len(acc.installed)) \o AddedTail])

\* The first segments of the files under dir.
LsEntries(files_, dir) ==
    {Split(Slice(normalizePath(k), Len(dir)), "/")[1] :
        k \in {k \in DOMAIN files_ : StartsWith(normalizePath(k), dir)}} \ {<<>>}

handleLs(env, command) ==
    LET parts == Words(command)
        targetDir == normalizePath(IF Len(parts) >= 2 THEN parts[2] ELSE <<"/">>)
        entries == LsEntries(env.files, DirPrefix(targetDir))
        atRoot == {Split(Slice(normalizePath(k), 1), "/")[1] : k \in DOMAIN env.files}
                      \ {<<>>}
        all == IF entries = {} /\ targetDir = <<"/">> THEN atRoot ELSE entries
    IN  Resolve(env, [output |-> JoinLines(Sorted(all)) \o <<"\n">>])

\* s.replace(/^["']|["']$/g, ''): a quote at the start goes, then one at the
\* end of what is left.
IsQuote(c) == c \in {"'", "\""}
StripQuotes(s) ==
    LET s1 == IF s # <<>> /\ IsQuote(s[1]) THEN Tail(s) ELSE s
    IN  IF s1 # <<>> /\ IsQuote(s1[Len(s1)]) THEN SubSeq(s1, 1, Len(s1) - 1) ELSE s1

SandpackAdapter_runCommand(env, command) ==
    LET npmInstallMatch_ == npmInstallMatch(command)
        trimmed == Trim(command)
        filePath == Trim(Slice(trimmed, Len(CatPrefix)))
        read == readFile(env, filePath)
    IN  IF npmInstallMatch_.matched THEN handleNpmInstall(env, Trim(npmInstallMatch_.group1))
        ELSE IF trimmed = PwdCommand THEN Resolve(env, [output |-> PwdOutput])
        ELSE IF StartsWith(trimmed, EchoPrefix)
        THEN Resolve(env, [output |-> StripQuotes(Slice(trimmed, Len(EchoPrefix))) \o <<"\n">>])
        ELSE IF trimmed = LsCommand \/ StartsWith(trimmed, LsPrefix) THEN handleLs(env, trimmed)
        ELSE IF StartsWith(trimmed, CatPrefix)
        THEN IF read.result.outcome = "resolved"
             THEN Resolve(env, [output |-> read.result.value])
             ELSE Resolve(env, [output |-> CatErrorHead \o filePath \o CatErrorTail])
        ELSE Resolve(env, [output |-> PolyfillHead \o trimmed \o <<"\n">>])

\* --------------------------------------------- the SandpackAdapter actions
\* The number of '/' in a path.
Depth(path) == Cardinality({i \in 1..Len(path) : path[i] = "/"})

ManifestKeys == {PackageJsonPath, PackageJsonBare}

\* The paths the operations are called with, and the keys and contents of
\* the file maps the adapter is constructed over.
AdapterPaths == {<<"/">>, <<"/", "s">>, <<"/", "s", "/", "a">>, <<"s", "/", "a">>}
WritePaths == {<<"/", "s", "/", "a">>, <<"s", "/", "a">>, <<"/", "x", ".", "P", "N", "G">>}
RenamePaths == {<<"/", "s">>, <<"/", "s", "/", "a">>, <<"/", "t">>}
InitialKeys == {<<"/", "s", "/", "a">>, <<"/", "s", "/", "b">>, <<"s", "/", "a">>, <<"/", "s", "a">>}

\* The texts writeFile() is called with.
Texts == {Text("w")}

\* The commands runCommand() is called with.
Commands ==
    {<<"p", "w", "d">>,
     <<"e", "c", "h", "o", " ", "'", "h", "i", "'">>,
     <<"l", "s", " ", "/", "s">>,
     <<"c", "a", "t", " ", "/", "s", "/", "a">>,
     <<"g", "i", "t", " ", "s", "t", "a", "t", "u", "s">>,
     <<"e", "c", "h", "o", " ", "n", "p", "m", " ", "i", " ", "r", "@", "1">>,
     <<"n", "p", "m", " ", "i", "n", "s", "t", "a", "l", "l", " ", "r", "@", "1">>,
     <<"n", "p", "m", " ", "a", "d", "d", " ", "-", "D", " ", "l", " ", "-", "g">>}

\* The text an initial file holds: one per key, so that a file's content
\* tells where it came from.
InitialText(key) ==
    CASE key = <<"/", "s", "/", "a">> -> Text("a")
      [] key = <<"/", "s", "/", "b">> -> Text("b")
      [] key = <<"s", "/", "a">> -> Text("c")
      [] OTHER -> Text("d")

\* Manifest texts: JSON that is no object, an object without a dependencies
\* table, an object with one (printed without indentation).
Lodash == <<"l">>
React == <<"r">>
Version1 == <<"1">>
Version2 == <<"2">>
Manifests ==
    {JsonText(JsonNull, 0),
     JsonText(JsonObject([f \in {"name"} |-> "test"], FALSE, EmptyMap), 0),
     JsonText(JsonObject([f \in {"name"} |-> "test"], TRUE,
                         [n \in {Lodash} |-> Version1]), 0)}

ContentsFor(key) ==
    IF key \in ManifestKeys THEN {Text("x")} \cup Manifests ELSE {InitialText(key)}

InitialMaps(keys) ==
    UNION {{f \in [K -> UNION {ContentsFor(k) : k \in K}] :
                \A k \in K : f[k] \in ContentsFor(k)} :
           K \in {K \in SUBSET keys : Cardinality(K) <= MaxFiles}}

\* The orders Object.keys may list the keys of a map in (insertion order:
\* any order, as the map may have been built in any).
Orders(f) ==
    {o \in [1..Cardinality(DOMAIN f) -> DOMAIN f] :
        \A i, j \in 1..Cardinality(DOMAIN f) : o[i] = o[j] => i = j}

NoResult == [outcome |-> "none", value |-> Void, error |-> "none"]
NoCall == [op |-> "none", args |-> <<>>, before |-> EmptyMap, log |-> <<>>,
           result |-> NoResult]

InitAdapter(keys) ==
    /\ files \in InitialMaps(keys)
    /\ lastCall = NoCall

\* No adapter at work.
AdapterIdle ==
    /\ files = EmptyMap
    /\ lastCall = NoCall

\* The surroundings at the start of an operation.  keys is the order
\* Object.keys lists the map's keys in, for the operations that ask for it.
Env(keys, shared) == [files |-> files, shared |-> shared, keys |-> keys, log |-> <<>>,
                      result |-> NoResult]

\* The operation has settled; the file map stays within the bounds.
Finish(op, args, env) ==
    /\ Cardinality(DOMAIN env.files) <= MaxFiles
    /\ \A k \in DOMAIN env.files : Depth(k) <= MaxDepth
    /\ files' = env.files
    /\ lastCall' = [op |-> op, args |-> args, before |-> files, log |-> env.log,
                    result |-> env.result]
    /\ UNCHANGED <<undoVars, sessVars, watchVars, mgrVars>>

\* The orders in question when the operation gets as far as Object.keys.
OrdersIf(iterates) == IF iterates THEN Orders(files) ELSE {<<>>}

AdapterReadFile ==
    \E path \in AdapterPaths :
        Finish("readFile", <<path>>, readFile(Env(<<>>, TRUE), path))

AdapterWriteFile ==
    \E path \in WritePaths, content \in Texts \cup {Bytes} :
        Finish("writeFile", <<path, content>>, writeFile(Env(<<>>, TRUE), path, content))

AdapterDeleteFiles ==
    \E path \in AdapterPaths :
        \E keys \in OrdersIf(normalizePath(path) \notin DOMAIN files) :
            Finish("deleteFiles", <<path>>, deleteFiles(Env(keys, TRUE), path))

AdapterListFiles ==
    \E path \in AdapterPaths, keys \in Orders(files) :
        Finish("listFiles", <<path>>, listFiles(Env(keys, TRUE), path))

AdapterRenameFile ==
    \E oldPath \in RenamePaths, newPath \in RenamePaths :
        \E keys \in OrdersIf(normalizePath(oldPath) \notin DOMAIN files),
           shared \in IF normalizePath(oldPath) \notin DOMAIN files THEN BOOLEAN ELSE {TRUE} :
            Finish("renameFile", <<oldPath, newPath>>,
                   renameFile(Env(keys, shared), oldPath, newPath))

AdapterStatFile ==
    \E path \in AdapterPaths :
        Finish("statFile", <<path>>, statFile(Env(<<>>, TRUE), path))

\* The version argument left out.
NoVersion == <<"undefined">>

\* An addDependency() that starts from an empty dependencies table.
addDependency_FreshTable(env, name, version) ==
    LET v == IF version = NoVersion THEN LatestLiteral ELSE version
        table == Put(EmptyMap, name, v)
        base_ == IF Lookup(env.files, PackageJsonPath).kind = "json"
                 THEN env.files[PackageJsonPath].json
                 ELSE JsonObject([name |-> "sandbox", version |-> "1.0.0"], FALSE, EmptyMap)
    IN  IF base_.type # "object" THEN Reject(env, "TypeError")
        ELSE Resolve([env EXCEPT !.files = Put(@, PackageJsonPath,
                          JsonText([base_ EXCEPT !.hasDeps = TRUE, !.dependencies = table], 2))],
                     table)

\* addDependency(files, name, version = 'latest'): the manifest at
\* '/package.json' is parsed (a missing, empty or unparsable one reads as
\* { name: 'sandbox', version: '1.0.0' }), its dependencies table gets the
\* entry, and the manifest is written back with an indentation of 2.  A
\* manifest that parses to no object makes the access to its dependencies
\* throw.
addDependency(env, name, version) ==
    LET v == IF version = NoVersion THEN LatestLiteral ELSE version
        existing == Lookup(env.files, PackageJsonPath)
        packageJson == IF existing.kind = "json" THEN existing.json
                       ELSE JsonObject([name |-> "sandbox", version |-> "1.0.0"],
                                       FALSE, EmptyMap)
        table == Put(IF packageJson.hasDeps THEN packageJson.dependencies ELSE EmptyMap,
                     name, v)
    IN  IF packageJson.type # "object" THEN Reject(env, "TypeError")
        ELSE Resolve([env EXCEPT !.files = Put(@, PackageJsonPath,
                          JsonText([packageJson EXCEPT !.hasDeps = TRUE,
                                                       !.dependencies = table], 2))],
                     table)

\* The names and versions addDependency() is called with.
DependencyNames == {Lodash, React}
DependencyVersions == {Version1, Version2, NoVersion}

CallAddDependency ==
    \E name \in DependencyNames, version \in DependencyVersions :
        Finish("addDependency", <<name, version>>,
               addDependency(Env(<<>>, TRUE), name, version))

AdapterRunCommand ==
    \E command \in Commands :
        Finish("runCommand", <<command>>,
               SandpackAdapter_runCommand(Env(<<>>, TRUE), command))


\* ------------------------------------------------- SandpackFileWatcher
\* The watcher after its constructor: no timer, an empty snapshot, no
\* callbacks.  live counts the setInterval timers that run, held says that
\* intervalId holds one of them.
NewWatcher == [live |-> 0, held |-> FALSE, previousSnapshot |-> EmptyMap, callbacks |-> 0]

\* What a tick hands out: the events passed to emit(), and the events each
\* registered callback was called with.
NoEvents(w) == [emitted |-> <<>>, delivered |-> [i \in 1..w.callbacks |-> <<>>]]

WatchEvent(type, paths) == [type |-> type, paths |-> paths]

\* An emit() that calls the first callback only.
emit_FirstOnly(w, out, event) ==
    [emitted |-> Append(out.emitted, event),
     delivered |-> [i \in 1..w.callbacks |->
                       IF i = 1 THEN Append(out.delivered[i], event) ELSE out.delivered[i]]]

emit(w, out, event) ==
    [emitted |-> Append(out.emitted, event),
     delivered |-> [i \in 1..w.callbacks |-> Append(out.delivered[i], event)]]

\* The keys of a list that pass a test, in the order of the list.
RECURSIVE Filter(_, _)
Filter(keys, keep) ==
    IF keys = <<>> THEN <<>>
    ELSE IF Head(keys) \in keep THEN <<Head(keys)>> \o Filter(Tail(keys), keep)
    ELSE Filter(Tail(keys), keep)

\* A detectChanges() that keeps the snapshot it had.
detectChanges_KeepSnapshot(w, currentFiles, curKeys, prevKeys) ==
    LET prev == w.previousSnapshot
        added == Filter(curKeys, DOMAIN currentFiles \ DOMAIN prev)
        changed == Filter(curKeys, {k \in DOMAIN currentFiles \cap DOMAIN prev :
                                       currentFiles[k] # prev[k]})
        removed == Filter(prevKeys, DOMAIN prev \ DOMAIN currentFiles)
        o1 == IF Len(added) > 0 THEN emit(w, NoEvents(w), WatchEvent("add", added))
              ELSE NoEvents(w)
        o2 == IF Len(changed) > 0 THEN emit(w, o1, WatchEvent("change", changed)) ELSE o1
        o3 == IF Len(removed) > 0 THEN emit(w, o2, WatchEvent("remove", removed)) ELSE o2
    IN  [watcher |-> w, out |-> o3]

\* detectChanges(): curKeys and prevKeys are Object.keys of the current map
\* and of the snapshot.
detectChanges(w, currentFiles, curKeys, prevKeys) ==
    LET prev == w.previousSnapshot
        added == Filter(curKeys, DOMAIN currentFiles \ DOMAIN prev)
        changed == Filter(curKeys, {k \in DOMAIN currentFiles \cap DOMAIN prev :
                                       currentFiles[k] # prev[k]})
        removed == Filter(prevKeys, DOMAIN prev \ DOMAIN currentFiles)
        o1 == IF Len(added) > 0 THEN emit(w, NoEvents(w), WatchEvent("add", added))
              ELSE NoEvents(w)
        o2 == IF Len(changed) > 0 THEN emit(w, o1, WatchEvent("change", changed)) ELSE o1
        o3 == IF Len(removed) > 0 THEN emit(w, o2, WatchEvent("remove", removed)) ELSE o2
    IN  [watcher |-> [w EXCEPT !.previousSnapshot = currentFiles], out |-> o3]

\* start(): the snapshot is taken and a timer started; a timer intervalId
\* held before keeps running.
WatcherStartOp(w, currentFiles) ==
    [w EXCEPT !.previousSnapshot = currentFiles, !.live = @ + 1, !.held = TRUE]

\* stop(): the timer intervalId holds is cleared, the callbacks are dropped.
WatcherStopOp(w) ==
    [w EXCEPT !.live = IF w.held THEN @ - 1 ELSE @, !.held = FALSE, !.callbacks = 0]

registerEventCallback(w) == [w EXCEPT !.callbacks = @ + 1]

\* The files the watched map holds, and their contents.
WatchedKeys == {<<"/", "a">>, <<"/", "b">>}
WatchedTexts == {Text("1"), Text("2")}
WatchedMaps == UNION {[K -> WatchedTexts] : K \in SUBSET WatchedKeys}

NoTick == [n |-> 0, prev |-> EmptyMap, since |-> EmptyMap, cur |-> EmptyMap,
           snapshot |-> EmptyMap, touched |-> FALSE, callbacks |-> 0,
           out |-> NoEvents(NewWatcher)]
NoBase == [files |-> EmptyMap, touched |-> FALSE]

\* No watcher at work.
WatcherIdle ==
    /\ watcher = NewWatcher
    /\ tick = NoTick
    /\ base = NoBase

InitWatcher ==
    /\ files \in WatchedMaps
    /\ lastCall = NoCall
    /\ WatcherIdle

WatcherQuiet == UNCHANGED <<undoVars, sessVars, lastCall, mgrVars>>

\* The owner of the map writes a file, or deletes one.
WatchedWrite ==
    \E k \in WatchedKeys, v \in WatchedTexts :
        /\ files' = Put(files, k, v)
        /\ files' # files
        /\ base' = [base EXCEPT !.touched = TRUE]
        /\ UNCHANGED <<watcher, tick>>
        /\ WatcherQuiet

WatchedDelete ==
    \E k \in DOMAIN files :
        /\ files' = Remove(files, k)
        /\ base' = [base EXCEPT !.touched = TRUE]
        /\ UNCHANGED <<watcher, tick>>
        /\ WatcherQuiet

WatcherStart ==
    /\ watcher.live < MaxIntervals
    /\ watcher' = WatcherStartOp(watcher, files)
    /\ base' = [files |-> files, touched |-> FALSE]
    /\ UNCHANGED <<files, tick>>
    /\ WatcherQuiet

WatcherStop ==
    /\ watcher' = WatcherStopOp(watcher)
    /\ watcher' # watcher
    /\ UNCHANGED <<files, tick, base>>
    /\ WatcherQuiet

WatcherRegister ==
    /\ watcher.callbacks < MaxCallbacks
    /\ watcher' = registerEventCallback(watcher)
    /\ UNCHANGED <<files, tick, base>>
    /\ WatcherQuiet

\* A timer fires.
WatcherTick ==
    /\ watcher.live > 0
    /\ \E curKeys \in Orders(files), prevKeys \in Orders(watcher.previousSnapshot) :
           LET r == detectChanges(watcher, files, curKeys, prevKeys)
           IN  /\ watcher' = r.watcher
               /\ tick' = [n |-> 1, prev |-> watcher.previousSnapshot, since |-> base.files,
                           cur |-> files, snapshot |-> r.watcher.previousSnapshot,
                           touched |-> base.touched,
                           callbacks |-> watcher.callbacks, out |-> r.out]
    /\ base' = [files |-> files, touched |-> FALSE]
    /\ UNCHANGED files
    /\ WatcherQuiet


\* ------------------------------------------------------- SandboxManager
\* The manager in Sandpack mode.  handle says that initPersistence gave a
\* handle; history is the document's change history, each entry the message
\* of a change and the files map after it, its hash being its position;
\* files and dependencies are the manager's fields; zen is the mirrored file
\* system (the CodeFileSystem).
NoMessage == [kind |-> "none", text |-> "", of |-> 0]
Message(text) == [kind |-> "text", text |-> text, of |-> 0]
RevertTo(hash) == [kind |-> "revert", text |-> "Revert to", of |-> hash]
Change(message, f) == [message |-> message, files |-> f]

\* The files map of the document (doc.files).
DocFiles(m) == Last(m.history).files

\* A JavaScript string is truthy unless it is empty; a missing key reads as
\* undefined.
Truthy(content) ==
    content.kind = "json" \/ (content.kind = "text" /\ content.text # "")

\* files['/package.json'] ?? files['package.json']
ManifestContent(f) ==
    IF PackageJsonPath \in DOMAIN f THEN f[PackageJsonPath] ELSE Lookup(f, PackageJsonBare)

\* parseDependencies(): the dependencies table of a manifest text, empty
\* when the text does not parse, parses to no object or has no table.
parseDependencies(content) ==
    IF content.kind = "json" /\ content.json.type = "object" /\ content.json.hasDeps
    THEN content.json.dependencies
    ELSE EmptyMap

\* const pkgJson = ...; if (pkgJson) this.dependencies = parseDependencies(pkgJson)
SyncDependencies(m) ==
    IF Truthy(ManifestContent(m.files))
    THEN [m EXCEPT !.dependencies = parseDependencies(ManifestContent(m.files))]
    ELSE m

\* seedFilesToZenFS(): every file of the manager's map is written to the
\* mirror; nothing is removed from it.
seedFilesToZenFS(m) ==
    [m EXCEPT !.zen = [k \in DOMAIN m.zen \cup DOMAIN m.files |->
                          IF k \in DOMAIN m.files THEN m.files[k] ELSE m.zen[k]]]

\* A listener that leaves the manager's files map as it is.
changeListener_KeepFiles(m) == seedFilesToZenFS(SyncDependencies(m))

\* The 'change' listener of initSandpackMode: the manager's files map becomes
\* a copy of the document's.
changeListener(m) ==
    seedFilesToZenFS(SyncDependencies([m EXCEPT !.files = DocFiles(m)]))

\* handle?.change(callback, {message}): f is the files map the callback
\* leaves, dirty whether it made any operation.  A change is appended and
\* 'change' emitted before change() returns; without operations there is no
\* change and no event; without a handle nothing happens.
MgrChange(m, f, message, dirty) ==
    IF m.handle /\ dirty
    THEN changeListener([m EXCEPT !.history = Append(@, Change(message, f))])
    ELSE m

\* this.files[path] = content; if it is the manifest, the dependencies are
\* parsed from it.
SetFile(m, path, content) ==
    [m EXCEPT !.files = Put(@, path, content),
              !.dependencies = IF path \in {PackageJsonPath, PackageJsonBare}
                               THEN parseDependencies(content) ELSE @]

\* The callbacks the SandpackAdapter is given.
MgrOnFileUpdate(m, path, content) ==
    LET m1 == MgrChange(m, IF m.handle THEN Put(DocFiles(m), path, content) ELSE EmptyMap,
                        NoMessage, TRUE)
        m2 == SetFile(m1, path, content)
    IN  [m2 EXCEPT !.zen = Put(@, path, content)]

MgrOnFileDelete(m, path) ==
    LET m1 == MgrChange(m, IF m.handle THEN Remove(DocFiles(m), path) ELSE EmptyMap,
                        NoMessage, m.handle /\ path \in DOMAIN DocFiles(m))
        m2 == [m1 EXCEPT !.files = Remove(@, path)]
    IN  [m2 EXCEPT !.zen = Remove(@, path)]

MgrOnDependenciesChanged(m, deps) == [m EXCEPT !.dependencies = deps]

\* The callbacks an adapter operation invoked, one after another.
RECURSIVE Replay(_, _)
Replay(m, log) ==
    IF log = <<>> THEN m
    ELSE LET i == Head(log)
         IN  Replay(CASE i.cb = "onFileUpdate" -> MgrOnFileUpdate(m, i.path, i.content)
                      [] i.cb = "onFileDelete" -> MgrOnFileDelete(m, i.path)
                      [] OTHER -> MgrOnDependenciesChanged(m, i.deps),
                    Tail(log))

\* The write and delete hooks of the CodeFileSystem.
Includes(t, sub) == \E i \in 0..(Len(t) - Len(sub)) : SubSeq(t, i + 1, i + Len(sub)) = sub

onWriteHook(m, path, content) ==
    IF content.kind = "bytes" THEN m
    ELSE IF \/ StartsWith(path, <<".", "o", "n", "l", "o", "o", "k">>)
            \/ Includes(path, <<"/", "n", "o", "d", "e", "_", "m", "o", "d", "u", "l", "e",
                                "s", "/">>)
    THEN m
    ELSE SetFile(MgrChange(m, IF m.handle THEN Put(DocFiles(m), path, content)
                              ELSE EmptyMap, NoMessage, TRUE),
                 path, content)

onDeleteHook(m, path) ==
    LET m1 == MgrChange(m, IF m.handle THEN Remove(DocFiles(m), path) ELSE EmptyMap,
                        NoMessage, m.handle /\ path \in DOMAIN DocFiles(m))
    IN  [m1 EXCEPT !.files = Remove(@, path)]

\* SandboxManager.writeFile(): the file system writes the file, then the
\* document and the manager's map get it when it is a string.
SandboxManager_writeFile(m, path, content) ==
    LET m1 == [m EXCEPT !.zen = Put(@, path, content)]
    IN  IF content.kind = "bytes" THEN m1
        ELSE SetFile(MgrChange(m1, IF m.handle THEN Put(DocFiles(m), path, content)
                                   ELSE EmptyMap, NoMessage, TRUE),
                     path, content)

\* createSnapshot(): a change of metadata.lastSnapshot with the message.
createSnapshot(m, message) ==
    IF ~m.handle THEN m
    ELSE MgrChange(m, DocFiles(m), Message(message), TRUE)

\* The files map the change callback of restoreSnapshot() leaves: the keys
\* the snapshot has no truthy content for are deleted, then every entry of
\* the snapshot that differs is assigned.  (RestoredFiles_TruthyOnly assigns
\* only the entries with a truthy content.)
RestoredFiles_TruthyOnly(f, snapshotFiles) ==
    LET kept == [k \in {k \in DOMAIN f : Truthy(Lookup(snapshotFiles, k))} |-> f[k]]
    IN  [k \in DOMAIN kept \cup {k \in DOMAIN snapshotFiles : Truthy(snapshotFiles[k])} |->
            IF k \in DOMAIN snapshotFiles THEN snapshotFiles[k] ELSE kept[k]]

RestoredFiles(f, snapshotFiles) ==
    LET kept == [k \in {k \in DOMAIN f : Truthy(Lookup(snapshotFiles, k))} |-> f[k]]
    IN  [k \in DOMAIN kept \cup DOMAIN snapshotFiles |->
            IF k \in DOMAIN snapshotFiles THEN snapshotFiles[k] ELSE kept[k]]

\* Whether that callback made any operation.
RestoreDirty(f, snapshotFiles) ==
    \/ \E k \in DOMAIN f : ~Truthy(Lookup(snapshotFiles, k))
    \/ \E k \in DOMAIN snapshotFiles : Lookup(f, k) # snapshotFiles[k]

\* A restoreSnapshot() that moves the document back to the snapshot's change.
restoreSnapshot_Rewind(m, hash) ==
    IF ~m.handle \/ hash \notin 1..Len(m.history) THEN m
    ELSE changeListener([m EXCEPT !.history = SubSeq(@, 1, hash)])

restoreSnapshot(m, hash) ==
    IF ~m.handle THEN m
    ELSE IF hash \notin 1..Len(m.history) THEN m
    ELSE LET snapshotFiles == m.history[hash].files
             m1 == MgrChange(m, RestoredFiles(DocFiles(m), snapshotFiles), RevertTo(hash),
                             RestoreDirty(DocFiles(m), snapshotFiles))
         IN  seedFilesToZenFS(SyncDependencies([m1 EXCEPT !.files = snapshotFiles]))

\* A checkoutAndSave() that restores without the safety snapshot.
checkoutAndSave_NoSafety(m, hash, saveMessage) == restoreSnapshot(m, hash)

checkoutAndSave(m, hash, saveMessage) ==
    restoreSnapshot(createSnapshot(m, saveMessage), hash)

\* getHistory(): one record for each change, in the order of the history.
getHistory(m) ==
    IF ~m.handle THEN <<>>
    ELSE [i \in 1..Len(m.history) |->
             [oid |-> i,
              message |-> IF m.history[i].message.kind = "none" THEN Message("No message")
                          ELSE m.history[i].message,
              files |-> m.history[i].files]]

\* The files of the manager's project and their contents: a manifest with a
\* dependencies table or without, a file with a text or the empty text.
ManagedKeys == {PackageJsonPath, <<"/", "a">>}
ManagedContents(k) ==
    IF k = PackageJsonPath
    THEN {JsonText(JsonObject([f \in {"name"} |-> "test"], TRUE, [n \in {Lodash} |-> Version1]), 2),
          JsonText(JsonObject([f \in {"name"} |-> "test"], FALSE, EmptyMap), 2)}
    ELSE {Text(""), Text("x")}
SaveMessages == {"Backup before checkout"}

\* The files the manager starts with: DEFAULT_FILES, or those of a stored
\* document.
DefaultFiles == [k \in {<<"/", "a">>} |-> Text("x")]
StoredFiles ==
    [k \in ManagedKeys |->
        IF k = PackageJsonPath
        THEN JsonText(JsonObject([f \in {"name"} |-> "test"], TRUE,
                                 [n \in {Lodash} |-> Version1]), 2)
        ELSE Text("")]

\* The last operation, with the document's files map and the length of the
\* history before it.
NoMgrCall == [op |-> "none", args |-> <<>>, docFiles |-> EmptyMap, len |-> 0]

\* No manager at work.
ManagerIdle ==
    /\ mgr = [handle |-> FALSE, history |-> <<>>, files |-> EmptyMap,
              dependencies |-> EmptyMap, zen |-> EmptyMap]
    /\ mgrCall = NoMgrCall
    /\ tabs = <<>>
    /\ pool = {}

\* The manager after initSandpackMode(): without a handle when
\* initPersistence failed; with a new document, seeded with the default
\* files; or with the files of a stored document.
InitManager ==
    /\ mgr \in {[handle |-> FALSE, history |-> <<>>, files |-> DefaultFiles,
                 dependencies |-> EmptyMap, zen |-> DefaultFiles],
                [handle |-> TRUE,
                 history |-> <<Change(NoMessage, EmptyMap), Change(NoMessage, DefaultFiles)>>,
                 files |-> DefaultFiles, dependencies |-> EmptyMap, zen |-> DefaultFiles],
                [handle |-> TRUE,
                 history |-> <<Change(NoMessage, EmptyMap), Change(NoMessage, StoredFiles)>>,
                 files |-> StoredFiles,
                 dependencies |-> parseDependencies(StoredFiles[PackageJsonPath]),
                 zen |-> StoredFiles]}
    /\ mgrCall = NoMgrCall
    /\ tabs = <<>>
    /\ pool = {}

\* The operation has completed; the history stays within its bound.
MgrDone(op, args, m) ==
    /\ Len(m.history) <= MaxHistory
    /\ mgr' = m
    /\ mgrCall' = [op |-> op, args |-> args,
                    docFiles |-> IF mgr.handle THEN DocFiles(mgr) ELSE EmptyMap,
                    len |-> Len(mgr.history)]
    /\ UNCHANGED <<undoVars, sessVars, adapterVars, watchVars, tabs, pool>>

\* An operation of the SandpackAdapter over the manager's callbacks: the map
\* getFiles() returned stays the live one only without a handle.
MgrAdapterEnv ==
    [files |-> mgr.files, shared |-> ~mgr.handle, keys |-> <<>>, log |-> <<>>,
     result |-> NoResult]

MgrAdapterWrite ==
    \E path \in ManagedKeys :
        \E content \in ManagedContents(path) :
            MgrDone("adapter.writeFile", <<path, content>>,
                    Replay(mgr, writeFile(MgrAdapterEnv, path, content).log))

MgrAdapterDelete ==
    \E path \in ManagedKeys :
        /\ path \in DOMAIN mgr.files
        /\ MgrDone("adapter.deleteFiles", <<path>>,
                   Replay(mgr, deleteFiles(MgrAdapterEnv, path).log))

MgrAdapterRename ==
    \E oldPath \in ManagedKeys, newPath \in ManagedKeys :
        /\ oldPath \in DOMAIN mgr.files
        /\ oldPath # newPath
        /\ MgrDone("adapter.renameFile", <<oldPath, newPath>>,
                   Replay(mgr, renameFile(MgrAdapterEnv, oldPath, newPath).log))

InstallCommands == {c \in Commands : npmInstallMatch(c).matched}

MgrAdapterInstall ==
    \E command \in InstallCommands :
        /\ ManifestContent(mgr.files).kind \in {"json", "undefined"}
        /\ MgrDone("adapter.runCommand", <<command>>,
                   Replay(mgr, SandpackAdapter_runCommand(MgrAdapterEnv, command).log))

MgrWriteHook ==
    \E path \in ManagedKeys :
        \E content \in ManagedContents(path) \cup {Bytes} :
            MgrDone("onWriteHook", <<path, content>>,
                    onWriteHook([mgr EXCEPT !.zen = Put(@, path, content)], path, content))

MgrDeleteHook ==
    \E path \in ManagedKeys :
        MgrDone("onDeleteHook", <<path>>,
                onDeleteHook([mgr EXCEPT !.zen = Remove(@, path)], path))

MgrWriteFile ==
    \E path \in ManagedKeys :
        \E content \in ManagedContents(path) \cup {Bytes} :
            MgrDone("writeFile", <<path, content>>,
                    SandboxManager_writeFile(mgr, path, content))

MgrCreateSnapshot ==
    \E message \in SaveMessages :
        MgrDone("createSnapshot", <<message>>, createSnapshot(mgr, message))

MgrRestoreSnapshot ==
    \E hash \in 1..(MaxHistory + 1) :
        MgrDone("restoreSnapshot", <<hash>>, restoreSnapshot(mgr, hash))

MgrCheckoutAndSave ==
    \E hash \in 1..(MaxHistory + 1), message \in SaveMessages :
        MgrDone("checkoutAndSave", <<hash, message>>, checkoutAndSave(mgr, hash, message))

\* The document takes a change made elsewhere; the 'change' listener runs.
MgrRemoteChange ==
    /\ mgr.handle
    /\ \E path \in ManagedKeys :
           \E f \in {Put(DocFiles(mgr), path, c) : c \in ManagedContents(path)}
                        \cup {Remove(DocFiles(mgr), path)} :
               /\ f # DocFiles(mgr)
               /\ MgrDone("change", <<path>>,
                          changeListener([mgr EXCEPT !.history =
                                                         Append(@, Change(NoMessage, f))]))

\* --------------------------------------------- tabs on one shared document
\* Each tab runs a SandboxManager on its copy of the document.  A change is
\* one operation on a key of doc.files: it has the operation id Automerge
\* gives it (a counter above every counter the copy held, then the actor),
\* and the ids of the changes the copy held when it was made.  Merging a
\* change adds it to the copy; Automerge resolves each key to the value of
\* the assignment no later operation on the key has seen, the greatest
\* operation id first.
Tabs == 1..2
MergeKeys == {<<"/", "a">>, <<"/", "b">>}
MergeContents == {Text("x"), Text("y")}

Ids(doc) == {c.id : c \in doc}
Later(a, b) == a[1] > b[1] \/ (a[1] = b[1] /\ a[2] > b[2])
NextCounter(doc) ==
    1 + (CHOOSE n \in {c.id[1] : c \in doc} : \A c \in doc : c.id[1] <= n)

\* The assignments to key k that no operation of the copy has overwritten.
Visible(doc, k) ==
    {c \in doc : /\ c.key = k
                 /\ c.put
                 /\ ~\E d \in doc : d.key = k /\ c.id \in d.seen}

Winner(ops) == CHOOSE c \in ops : \A d \in ops : d = c \/ Later(c.id, d.id)

\* doc.files of a copy that holds the changes doc.
Materialise(doc) ==
    [k \in {k \in MergeKeys : Visible(doc, k) # {}} |-> Winner(Visible(doc, k)).content]

\* The change the common ancestor of the copies was made by, and the change
\* a tab makes on its copy.
BaseChange ==
    [id |-> <<1, 0>>, key |-> <<"/", "a">>, put |-> TRUE, content |-> Text("x"), seen |-> {}]
NewChange(t, doc, k, isPut, content) ==
    [id |-> <<NextCounter(doc), t>>, key |-> k, put |-> isPut, content |-> content,
     seen |-> Ids(doc)]

\* Every tab has loaded the same stored document.
InitTabs ==
    /\ tabs = [t \in Tabs |->
                  [m |-> [handle |-> TRUE,
                          history |-> <<Change(NoMessage, EmptyMap),
                                        Change(NoMessage, Materialise({BaseChange}))>>,
                          files |-> Materialise({BaseChange}),
                          dependencies |-> EmptyMap,
                          zen |-> Materialise({BaseChange})],
                   doc |-> {BaseChange}]]
    /\ pool = {BaseChange}

TabsQuiet == UNCHANGED <<undoVars, sessVars, adapterVars, watchVars, mgr, mgrCall>>

\* A tab writes a file through its SandboxManager.
TabWrite ==
    \E t \in Tabs, k \in MergeKeys, content \in MergeContents :
        /\ Cardinality(pool) < MaxMerged
        /\ LET c == NewChange(t, tabs[t].doc, k, TRUE, content)
           IN  /\ tabs' = [tabs EXCEPT ![t] =
                               [m |-> SandboxManager_writeFile(tabs[t].m, k, content),
                                doc |-> tabs[t].doc \cup {c}]]
               /\ pool' = pool \cup {c}
        /\ TabsQuiet

\* The file system of a tab deletes a file that the document holds.
TabDelete ==
    \E t \in Tabs, k \in MergeKeys :
        /\ Cardinality(pool) < MaxMerged
        /\ k \in DOMAIN DocFiles(tabs[t].m)
        /\ LET c == NewChange(t, tabs[t].doc, k, FALSE, Undefined)
           IN  /\ tabs' = [tabs EXCEPT ![t] =
                               [m |-> onDeleteHook(tabs[t].m, k),
                                doc |-> tabs[t].doc \cup {c}]]
               /\ pool' = pool \cup {c}
        /\ TabsQuiet

\* A tab merges a change another tab made, once it holds the changes that one
\* had seen; the 'change' listener runs.  A change the copy holds already is
\* dropped.
TabMerge ==
    \E t \in Tabs, c \in pool :
        /\ c.seen \subseteq Ids(tabs[t].doc)
        /\ tabs' = IF c \in tabs[t].doc THEN tabs
                   ELSE [tabs EXCEPT ![t] =
                            [m |-> changeListener(
                                       [tabs[t].m EXCEPT !.history =
                                            Append(@, Change(NoMessage,
                                                Materialise(tabs[t].doc \cup {c})))]),
                             doc |-> tabs[t].doc \cup {c}]]
        /\ UNCHANGED pool
        /\ TabsQuiet

\* ------------------------------------------------------ the specifications
Init == InitUndo(InitialDocs) /\ InitSession /\ AdapterIdle /\ WatcherIdle /\ ManagerIdle

Next ==
    \/ WriteFile
    \/ DeleteFile
    \/ InsertText
    \/ DeleteText
    \/ Undo
    \/ Redo

\* The UndoRedoManager under edits, undo() and redo().
Spec == Init /\ [][Next]_vars

FaultInit ==
    /\ InitUnready(InitialDocs) /\ InitSession /\ AdapterIdle /\ WatcherIdle /\ ManagerIdle

FaultNext ==
    \/ WriteFile
    \/ DeleteFile
    \/ InsertText
    \/ DeleteText
    \/ UndoAt
    \/ RedoAt

\* The UndoRedoManager on a handle that may be unavailable, with patch
\* applications that may throw.
FaultSpec == FaultInit /\ [][FaultNext]_vars

SessionInit ==
    InitUndo({[p \in Paths |-> NoFile]}) /\ InitSession /\ AdapterIdle /\ WatcherIdle /\ ManagerIdle

SessionNext ==
    \/ CallStart
    \/ CallReconnect
    \/ CallRestartProvider
    \/ CallClear
    \/ CallStartSandpackSession
    \/ CreateResolved
    \/ CreateRejected
    \/ TerminalsReady
    \/ DelayElapsed
    \/ Ping1Answered
    \/ SoftReconnectResolved
    \/ SoftReconnectRejected
    \/ Ping2Answered
    \/ DestroyResolved
    \/ DestroyRejected
    \/ ClearDestroyResolved

\* The SessionManager under interleaved calls and backend answers.
SessionSpec == SessionInit /\ [][SessionNext]_vars

CommandNext ==
    \/ SessionNext
    \/ CallPing
    \/ CallRunCommand
    \/ PingRunResolved
    \/ PingRunRejected
    \/ RunResolved
    \/ RunRejected

\* The SessionManager with ping() and runCommand() among the calls.
CommandSpec == SessionInit /\ [][CommandNext]_vars

AdapterInit ==
    /\ InitUndo({[p \in Paths |-> NoFile]}) /\ InitSession
    /\ InitAdapter(InitialKeys) /\ WatcherIdle /\ ManagerIdle

AdapterNext ==
    \/ AdapterReadFile
    \/ AdapterWriteFile
    \/ AdapterDeleteFiles
    \/ AdapterListFiles
    \/ AdapterRenameFile
    \/ AdapterStatFile

\* The file operations of the SandpackAdapter over a file map, one after
\* another.
AdapterSpec == AdapterInit /\ [][AdapterNext]_vars

InstallInit ==
    /\ InitUndo({[p \in Paths |-> NoFile]}) /\ InitSession
    /\ InitAdapter(ManifestKeys) /\ WatcherIdle /\ ManagerIdle

InstallNext ==
    \/ AdapterNext
    \/ AdapterRunCommand

\* The SandpackAdapter, runCommand() included, over file maps that hold
\* manifests.
InstallSpec == InstallInit /\ [][InstallNext]_vars

WatcherInit ==
    InitUndo({[p \in Paths |-> NoFile]}) /\ InitSession /\ InitWatcher /\ ManagerIdle

WatcherNext ==
    \/ WatchedWrite
    \/ WatchedDelete
    \/ WatcherStart
    \/ WatcherStop
    \/ WatcherRegister
    \/ WatcherTick

\* The SandpackFileWatcher polling a file map that its owner edits.
WatcherSpec == WatcherInit /\ [][WatcherNext]_vars

ManagerInit ==
    /\ InitUndo({[p \in Paths |-> NoFile]}) /\ InitSession
    /\ AdapterIdle /\ WatcherIdle /\ InitManager

ManagerNext ==
    \/ MgrAdapterWrite
    \/ MgrAdapterDelete
    \/ MgrAdapterRename
    \/ MgrAdapterInstall
    \/ MgrWriteHook
    \/ MgrDeleteHook
    \/ MgrWriteFile
    \/ MgrCreateSnapshot
    \/ MgrRestoreSnapshot
    \/ MgrCheckoutAndSave
    \/ MgrRemoteChange

\* The SandboxManager in Sandpack mode under the operations that change its
\* files.
ManagerSpec == ManagerInit /\ [][ManagerNext]_vars

DependencyNext ==
    \/ CallAddDependency

\* addDependency() called over and over on a file map.
DependencySpec == InstallInit /\ [][DependencyNext]_vars

MergeInit ==
    /\ InitUndo({[p \in Paths |-> NoFile]}) /\ InitSession
    /\ AdapterIdle /\ WatcherIdle
    /\ mgr = [handle |-> FALSE, history |-> <<>>, files |-> EmptyMap,
              dependencies |-> EmptyMap, zen |-> EmptyMap]
    /\ mgrCall = NoMgrCall
    /\ InitTabs

MergeNext ==
    \/ TabWrite
    \/ TabDelete
    \/ TabMerge

\* Two tabs on one document: each changes its copy and merges the changes of
\* the other.
MergeSpec == MergeInit /\ [][MergeNext]_vars

\* ------------------------------------------------------------ the claims
EditOps == {"write", "delete", "insert", "remove"}

HeadSet(heads) == {heads[i] : i \in 1..Len(heads)}

\* C1: after n edits observed from construction and then n undo() calls, the
\* file map equals the file map before the first edit.
C1_UndoAllEdits ==
    (run.n >= 1 /\ run.m = run.n) => FileMap(Last(history)) = FileMap(history[1])

\* C2: undo() on a non-empty undo stack followed at once by redo() leaves the
\* file map, the undo stack and the redo stack as they were before the undo().
C2_UndoThenRedo ==
    mark.phase = "redone" =>
        /\ FileMap(Last(history)) = mark.files
        /\ undoStack = mark.undoStack
        /\ redoStack = mark.redoStack

\* C3: an edit observed while no undo/redo is applied pushes the last known
\* heads on the undo stack, empties the redo stack and makes the new heads the
\* last known heads when the heads differ as sets, and leaves both stacks alone
\* when they are equal; so a redo() right after an edit changes nothing.
C3_ObservedEdit ==
    [][ /\ (lastOp' \in EditOps /\ ~isUndoingOrRedoing /\ history' # history) =>
            IF HeadSet(currentHeads) # HeadSet(getHeads(history'))
            THEN /\ undoStack' = Append(undoStack, currentHeads)
                 /\ redoStack' = <<>>
                 /\ currentHeads' = getHeads(history')
            ELSE /\ undoStack' = undoStack
                 /\ redoStack' = redoStack
        /\ (lastOp \in EditOps /\ lastOp' = "redo") =>
            UNCHANGED <<history, undoStack, redoStack, currentHeads>>
      ]_vars

\* An edit made after an undo(): the heads pushed are the undo's target, not
\* the heads the document had before the edit.
C3_Witness ==
    /\ lastOp \in EditOps
    /\ redoStack = <<>>
    /\ Len(undoStack) > 0
    /\ Last(undoStack) # <<Len(history) - 1>>
    /\ currentHeads = getHeads(history)

\* C4: the change that undo() or redo() makes to the document is not recorded
\* as an edit: undo() on a non-empty undo stack takes one entry off the undo
\* stack and puts the last known heads on the redo stack, and redo() the other
\* way round.
C4_UndoNotRecorded ==
    [][ /\ (lastOp' = "undo" /\ Len(undoStack) > 0) =>
            /\ undoStack' = Front(undoStack)
            /\ redoStack' = Append(redoStack, currentHeads)
        /\ (lastOp' = "redo" /\ Len(redoStack) > 0) =>
            /\ redoStack' = Front(redoStack)
            /\ undoStack' = Append(undoStack, currentHeads)
      ]_vars

\* An undo() that changed the document (a change notification was delivered).
C4_Witness ==
    /\ lastOp = "undo"
    /\ mark.phase = "undone"
    /\ Len(history) = mark.len + 1
    /\ Len(undoStack) + 1 = Len(mark.undoStack)
    /\ Len(redoStack) = Len(mark.redoStack) + 1

\* C5: undo() on an empty undo stack and redo() on an empty redo stack leave
\* the document, both stacks, the last known heads and the flag unchanged.
C5_EmptyStackNoop ==
    [][ ((lastOp' = "undo" /\ Len(undoStack) = 0)
         \/ (lastOp' = "redo" /\ Len(redoStack) = 0)) =>
            UNCHANGED <<history, undoStack, redoStack, currentHeads, isUndoingOrRedoing>>
      ]_vars

\* An undo() that found the undo stack empty, after the stack had been used.
C5_Witness ==
    /\ lastOp = "undo"
    /\ mark.phase = "none"
    /\ undoStack = <<>>
    /\ Len(redoStack) > 0

\* The heads the manager has recorded.
RecordedHeads ==
    {currentHeads} \cup HeadSet(undoStack) \cup HeadSet(redoStack)

\* C6: for recorded heads h1 and h2, applyPatches of diff(h1, h2) on the
\* document at h1 yields the content of the document at h2.
C6_ApplyDiff ==
    \A h1, h2 \in RecordedHeads :
        LET v1 == DocAt(history, h1)
            v2 == DocAt(history, h2)
            d == [files |-> v1, k |-> Len(history) + 1, dirty |-> FALSE]
        IN  FileMap(applyPatches(d, diff(v1, v2)).files) = FileMap(v2)

\* A call is inside the connection-attempt loop of start().
InLoop(c) == calls[c].pc \in {"create", "terminals", "delay"}

\* C7: at most one connection-attempt loop of start() is in progress.
C7_SingleLoop == Cardinality({c \in Calls : InLoop(c)}) <= 1

\* C8 as stated: a start() call makes at most MAX_RETRIES connection attempts.
C8_AtMostMaxRetries == \A c \in Calls : calls[c].tries <= MAX_RETRIES

\* C8: a start() call makes at most MAX_RETRIES + 1 connection attempts, has
\* waited RETRY_DELAY_MS before each attempt but the first, and ends with the
\* attempt that succeeded.
C8_RetryBound ==
    /\ \A c \in Calls :
        /\ calls[c].tries <= MAX_RETRIES + 1
        /\ calls[c].okAt = 0
        /\ InLoop(c) =>
            Len(calls[c].delays) = IF calls[c].pc = "delay" THEN calls[c].tries
                                   ELSE calls[c].tries - 1
        /\ \A i \in 1..Len(calls[c].delays) : calls[c].delays[i] = RETRY_DELAY_MS
    /\ done.call.okAt # 0 =>
        /\ done.outcome = "returned"
        /\ done.call.okAt = done.call.tries
        /\ Len(done.call.delays) = done.call.tries - 1
        /\ \A i \in 1..Len(done.call.delays) : done.call.delays[i] = RETRY_DELAY_MS

\* A start() that connected at its last attempt, after MAX_RETRIES waits.
C8_Witness ==
    /\ done.outcome = "returned"
    /\ done.call.okAt = MAX_RETRIES + 1
    /\ Len(done.call.delays) = MAX_RETRIES

\* C9: a start() whose attempts all failed rejects with the last attempt's
\* error and leaves adapter null, provider null and isConnecting false.
C9_ExhaustedLeavesUnset ==
    (done.outcome = "rejected" /\ done.call.op = "start") =>
        /\ done.error = [src |-> "connect", attempt |-> done.call.tries]
        /\ adapter = 0
        /\ provider = 0
        /\ ~isConnecting

\* C10: a reconnect() whose soft reconnect failed (it threw, or the ping after
\* it failed) has destroyed the provider and started a session.
C10_SoftFailRestarts ==
    (done.outcome # "none" /\ done.call.op = "reconnect"
     /\ done.call.soft \in {"threw", "pingfail"}) =>
        /\ done.call.restarted
        /\ done.call.destroyed
        /\ done.call.tries >= 1

\* A call that caught (or would have thrown) an error, or found no adapter.
Troubled(call) == call.noAdapter \/ call.lastError # NoError

\* C11: ping(), runCommand() and reconnect() never reject; when the adapter
\* is missing or a call they make throws, ping() resolves to false,
\* runCommand() resolves to {output: '', success: false, error: <message>}
\* and reconnect() resolves normally.
C11_NeverReject ==
    (done.outcome # "none" /\ done.call.op \in {"ping", "runCommand", "reconnect"}) =>
        /\ done.outcome # "rejected"
        /\ (done.call.op = "ping" /\ Troubled(done.call)) =>
            done.value = Bool(FALSE)
        /\ (done.call.op = "runCommand" /\ Troubled(done.call)) =>
            /\ done.value.kind = "result"
            /\ done.value.output = ""
            /\ done.value.success = FALSE
            /\ done.value.error \in {NoAdapterMessage, AdapterMessage,
                                     CallbackMessage, UnknownMessage}
        /\ (done.call.op = "reconnect") =>
            done.outcome \in {"returned", "caught"}

\* A ping() whose adapter call threw has answered false.
C11_Witness ==
    /\ done.outcome = "returned"
    /\ done.call.op = "ping"
    /\ done.call.lastError.src = "adapter"
    /\ done.value = Bool(FALSE)

\* ------------------------------------------- the claims on SandpackAdapter
\* The path with a leading '/', and without it.
SlashForm(p) == IF p # <<>> /\ p[1] = "/" THEN p ELSE <<"/">> \o p
NoSlashForm(p) == IF p # <<>> /\ p[1] = "/" THEN Tail(p) ELSE p

\* The path ends in one of the binary extensions, in either case of letters.
HasBinaryExtension(p) == \E e \in BINARY_EXTENSIONS : EndsWith(toLowerCase(p), e)

\* The callbacks of a kind the last operation invoked.
Invoked(cb) == {i \in 1..Len(lastCall.log) : lastCall.log[i].cb = cb}

\* C12: writeFile() with Uint8Array content, or with text content and a path
\* that has a binary extension, resolves, invokes neither onFileUpdate nor
\* onFileDelete and leaves the file map unchanged.
C12_BinaryWriteSkipped ==
    (/\ lastCall.op = "writeFile"
     /\ \/ lastCall.args[2].kind = "bytes"
        \/ HasBinaryExtension(lastCall.args[1])) =>
        /\ lastCall.result.outcome = "resolved"
        /\ Invoked("onFileUpdate") = {}
        /\ Invoked("onFileDelete") = {}
        /\ files = lastCall.before

\* A text written to a path with a binary extension was skipped.
C12_Witness ==
    /\ lastCall.op = "writeFile"
    /\ lastCall.args[2].kind = "text"
    /\ HasBinaryExtension(lastCall.args[1])
    /\ lastCall.result.outcome = "resolved"
    /\ files = lastCall.before

\* C13: writeFile(p, c) with a text c and a path p that has no binary
\* extension, given with or without a leading '/', stores c under the key
\* that starts with '/' and changes no other key, and a readFile(p) after it
\* returns c; every key passed to onFileUpdate, by any operation, starts
\* with '/'.
C13_NormalizedWrite ==
    /\ (/\ lastCall.op = "writeFile"
        /\ lastCall.args[2].kind = "text"
        /\ ~HasBinaryExtension(lastCall.args[1])) =>
            /\ files = Put(lastCall.before, SlashForm(lastCall.args[1]), lastCall.args[2])
            /\ readFile(Env(<<>>, TRUE), lastCall.args[1]).result
                   = [outcome |-> "resolved", value |-> lastCall.args[2], error |-> "none"]
    /\ \A i \in Invoked("onFileUpdate") :
            /\ lastCall.log[i].path # <<>>
            /\ lastCall.log[i].path[1] = "/"

\* A text written to a path given without its leading '/' is stored under
\* the key with it.
C13_Witness ==
    /\ lastCall.op = "writeFile"
    /\ lastCall.args[2].kind = "text"
    /\ lastCall.args[1][1] # "/"
    /\ lastCall.args[1] \notin DOMAIN files
    /\ SlashForm(lastCall.args[1]) \notin DOMAIN lastCall.before
    /\ SlashForm(lastCall.args[1]) \in DOMAIN files
    /\ files[SlashForm(lastCall.args[1])] = lastCall.args[2]

\* C14: readFile(p) rejects with 'File not found' exactly when neither p
\* with a leading '/' nor p without it is a key of the file map; otherwise
\* it returns the stored content; it never modifies the map.
C14_ReadFile ==
    (lastCall.op = "readFile") =>
        LET found == {SlashForm(lastCall.args[1]), NoSlashForm(lastCall.args[1])}
                         \cap DOMAIN lastCall.before
        IN  /\ (lastCall.result.outcome = "rejected") <=> (found = {})
            /\ (lastCall.result.outcome = "rejected") =>
                   lastCall.result.error = "File not found"
            /\ (lastCall.result.outcome = "resolved") =>
                   \E k \in found : lastCall.result.value = lastCall.before[k]
            /\ files = lastCall.before
            /\ lastCall.log = <<>>

\* A file stored without a leading '/' was read through a path with one.
C14_Witness ==
    /\ lastCall.op = "readFile"
    /\ lastCall.result.outcome = "resolved"
    /\ lastCall.args[1][1] = "/"
    /\ lastCall.args[1] \notin DOMAIN lastCall.before
    /\ lastCall.result.value = lastCall.before[NoSlashForm(lastCall.args[1])]

\* The package tokens of an npm install command that are no flags, and the
\* name and the version each of them asks for.
InstallTokens(command) ==
    LET words == Words(Trim(npmInstallMatch(command).group1))
    IN  {words[i] : i \in {i \in 1..Len(words) : words[i][1] # "-"}}
TokenName(tok) ==
    IF \E i \in 2..Len(tok) : tok[i] = "@"
    THEN SubSeq(tok, 1, (CHOOSE i \in 2..Len(tok) :
                            tok[i] = "@" /\ \A j \in (i + 1)..Len(tok) : tok[j] # "@") - 1)
    ELSE tok
TokenVersion(tok) ==
    IF TokenName(tok) = tok THEN <<"l", "a", "t", "e", "s", "t">>
    ELSE SubSeq(tok, Len(TokenName(tok)) + 2, Len(tok))

\* The manifest a file map holds for npm install, when it parses to an
\* object ("none" otherwise).
ManifestOf(f) ==
    LET key == IF PackageJsonPath \in DOMAIN f THEN PackageJsonPath ELSE PackageJsonBare
    IN  IF key \in DOMAIN f /\ f[key].kind = "json" THEN f[key].json ELSE NoJson

\* C15: runCommand('npm install|i|add <tok...>') sets dependencies[name] to
\* the version (or 'latest') of each token that is no flag in the manifest
\* at '/package.json', creating the manifest when there is none, keeps the
\* other dependency entries of a manifest that parses, and invokes
\* onDependenciesChanged exactly once, with the updated table.
C15_NpmInstall ==
    (lastCall.op = "runCommand" /\ npmInstallMatch(lastCall.args[1]).matched) =>
        LET toks == InstallTokens(lastCall.args[1])
            old == ManifestOf(lastCall.before)
        IN  /\ lastCall.result.outcome = "resolved"
            /\ PackageJsonPath \in DOMAIN files
            /\ files[PackageJsonPath].kind = "json"
            /\ files[PackageJsonPath].json.type = "object"
            /\ LET deps == files[PackageJsonPath].json.dependencies
               IN  /\ \A tok \in toks :
                          /\ TokenName(tok) \in DOMAIN deps
                          /\ deps[TokenName(tok)] = TokenVersion(tok)
                   /\ old.hasDeps =>
                          \A n \in DOMAIN old.dependencies \ {TokenName(tok) : tok \in toks} :
                              n \in DOMAIN deps /\ deps[n] = old.dependencies[n]
                   /\ Cardinality(Invoked("onDependenciesChanged")) = 1
                   /\ \A i \in Invoked("onDependenciesChanged") : lastCall.log[i].deps = deps

\* The same for the manifests that are absent, do not parse, or parse to an
\* object.
C15_ObjectManifest ==
    (ManifestOf(lastCall.before).type # "null") => C15_NpmInstall

\* An install into a manifest that held another dependency.
C15_Witness ==
    /\ lastCall.op = "runCommand"
    /\ npmInstallMatch(lastCall.args[1]).matched
    /\ lastCall.result.outcome = "resolved"
    /\ ManifestOf(lastCall.before).hasDeps
    /\ \E n \in DOMAIN ManifestOf(lastCall.before).dependencies :
           n \notin {TokenName(tok) : tok \in InstallTokens(lastCall.args[1])}

\* A manifest that parses to null makes the install fail.
C15_NullManifest ==
    /\ lastCall.op = "runCommand"
    /\ npmInstallMatch(lastCall.args[1]).matched
    /\ ManifestOf(lastCall.before).type = "null"
    /\ lastCall.result.outcome = "rejected"
    /\ files = lastCall.before
    /\ lastCall.log = <<>>

\* The prefix the files beneath the path p share: p + '/'.
Under(p) == IF p # <<>> /\ p[Len(p)] = "/" THEN p ELSE p \o <<"/">>

\* The keys of the map f beneath the path p, and where one of them belongs
\* beneath the path q.
ChildrenOf(f, p) == {k \in DOMAIN f : StartsWith(k, Under(p))}
MovedTo(k, p, q) == Under(q) \o SubSeq(k, Len(Under(p)) + 1, Len(k))

\* C16: when old is no key of the file map, renameFile(old, new) leaves each
\* file that was stored under old + '/' stored under new + '/' at the same
\* relative path with the same content, leaves no key under old + '/', and
\* leaves every file outside that prefix as it was (but for the files the
\* moved ones replace).
C16_RenameDirectory ==
    (lastCall.op = "renameFile" /\ SlashForm(lastCall.args[1]) \notin DOMAIN lastCall.before) =>
        LET old == SlashForm(lastCall.args[1])
            new == SlashForm(lastCall.args[2])
            moved == ChildrenOf(lastCall.before, old)
        IN  /\ \A k \in moved :
                   /\ MovedTo(k, old, new) \in DOMAIN files
                   /\ files[MovedTo(k, old, new)] = lastCall.before[k]
            /\ ChildrenOf(files, old) = {}
            /\ \A k \in DOMAIN lastCall.before \ moved :
                   k \notin {MovedTo(m, old, new) : m \in moved} =>
                       k \in DOMAIN files /\ files[k] = lastCall.before[k]

\* The same for a new path that is neither old nor beneath it.
C16_ElsewhereRename ==
    (/\ lastCall.op = "renameFile"
     /\ ~StartsWith(Under(SlashForm(lastCall.args[2])), Under(SlashForm(lastCall.args[1])))) =>
        C16_RenameDirectory

\* A directory with a file in it was renamed to another path.
C16_Witness ==
    /\ lastCall.op = "renameFile"
    /\ SlashForm(lastCall.args[1]) \notin DOMAIN lastCall.before
    /\ ChildrenOf(lastCall.before, SlashForm(lastCall.args[1])) # {}
    /\ ChildrenOf(files, SlashForm(lastCall.args[2])) # {}
    /\ ChildrenOf(files, SlashForm(lastCall.args[1])) = {}

\* A directory renamed to its own path has lost its files.
C16_RenamedToItself ==
    /\ lastCall.op = "renameFile"
    /\ SlashForm(lastCall.args[1]) \notin DOMAIN lastCall.before
    /\ lastCall.args[1] = lastCall.args[2]
    /\ ChildrenOf(lastCall.before, SlashForm(lastCall.args[1])) # {}
    /\ files = [k \in DOMAIN lastCall.before
                     \ ChildrenOf(lastCall.before, SlashForm(lastCall.args[1]))
                  |-> lastCall.before[k]]

\* C17: when old is a key of the file map, renameFile(old, new) leaves the
\* content that was stored at old stored at new, and changes no file other
\* than old and new.
C17_RenameFile ==
    (lastCall.op = "renameFile" /\ SlashForm(lastCall.args[1]) \in DOMAIN lastCall.before) =>
        LET old == SlashForm(lastCall.args[1])
            new == SlashForm(lastCall.args[2])
        IN  /\ new \in DOMAIN files
            /\ files[new] = lastCall.before[old]
            /\ DOMAIN files \ {old, new} = DOMAIN lastCall.before \ {old, new}
            /\ \A k \in DOMAIN files \ {old, new} : files[k] = lastCall.before[k]

\* The same for a new path other than old.
C17_OtherName ==
    (lastCall.op = "renameFile" /\ SlashForm(lastCall.args[1]) # SlashForm(lastCall.args[2])) =>
        C17_RenameFile

\* A file was renamed to another path, beside a file that stayed.
C17_Witness ==
    /\ lastCall.op = "renameFile"
    /\ SlashForm(lastCall.args[1]) \in DOMAIN lastCall.before
    /\ SlashForm(lastCall.args[1]) \notin DOMAIN files
    /\ SlashForm(lastCall.args[2]) \in DOMAIN files
    /\ DOMAIN files \ {SlashForm(lastCall.args[2])} # {}

\* A file renamed to its own path is gone.
C17_RenamedToItself ==
    /\ lastCall.op = "renameFile"
    /\ SlashForm(lastCall.args[1]) \in DOMAIN lastCall.before
    /\ lastCall.args[1] = lastCall.args[2]
    /\ files = Remove(lastCall.before, SlashForm(lastCall.args[1]))

PathsOf(f) == {SlashForm(k) : k \in DOMAIN f}
Beneath(f, d) == {n \in PathsOf(f) : StartsWith(n, Under(d)) /\ Len(n) > Len(Under(d))}
FirstSegment(n, d) ==
    LET rest == SubSeq(n, Len(Under(d)) + 1, Len(n))
        stops == {i \in 1..Len(rest) : rest[i] = "/"}
    IN  IF stops = {} THEN rest
        ELSE SubSeq(rest, 1, (CHOOSE i \in stops : \A j \in stops : i <= j) - 1)

\* C20: listFiles(d) returns exactly one entry for each distinct first path
\* segment of the files beneath d and nothing else; an entry has type
\* 'directory' if and only if some file lies strictly beneath that child
\* path, and type 'file' otherwise, whether the keys of the file map are
\* stored with or without a leading '/'.
C20_ListFiles ==
    (lastCall.op = "listFiles") =>
        LET d == SlashForm(lastCall.args[1])
            entries == lastCall.result.value
            segments == {FirstSegment(n, d) : n \in Beneath(lastCall.before, d)}
        IN  /\ lastCall.result.outcome = "resolved"
            /\ {entries[i].name : i \in 1..Len(entries)} = segments
            /\ Len(entries) = Cardinality(segments)
            /\ \A i \in 1..Len(entries) :
                   entries[i].type =
                       IF Beneath(lastCall.before, Under(d) \o entries[i].name) # {}
                       THEN "directory" ELSE "file"

\* The same for the file maps whose keys all start with '/'.
C20_SlashKeys ==
    (\A k \in DOMAIN lastCall.before : k[1] = "/") => C20_ListFiles

\* A listing with a directory and a file in it.
C20_Witness ==
    /\ lastCall.op = "listFiles"
    /\ \A k \in DOMAIN lastCall.before : k[1] = "/"
    /\ \E i, j \in 1..Len(lastCall.result.value) :
           /\ lastCall.result.value[i].type = "directory"
           /\ lastCall.result.value[j].type = "file"

\* A directory whose only file is stored without a leading '/' is listed as
\* a file.
C20_BareKeyDirectory ==
    /\ lastCall.op = "listFiles"
    /\ \E i \in 1..Len(lastCall.result.value) :
           /\ lastCall.result.value[i].type = "file"
           /\ Beneath(lastCall.before,
                      Under(SlashForm(lastCall.args[1])) \o lastCall.result.value[i].name) # {}

\* The text s holds the text sub somewhere.
Contains(s, sub) ==
    \E i \in 0..(Len(s) - Len(sub)) : SubSeq(s, i + 1, i + Len(sub)) = sub

\* The command is one of those runCommand() has an answer of its own for.
KnownCommand(command) ==
    LET trimmed == Trim(command)
    IN  \/ npmInstallMatch(command).matched
        \/ trimmed = <<"p", "w", "d">>
        \/ StartsWith(trimmed, <<"e", "c", "h", "o", " ">>)
        \/ trimmed = <<"l", "s">>
        \/ StartsWith(trimmed, <<"l", "s", " ">>)
        \/ StartsWith(trimmed, <<"c", "a", "t", " ">>)

\* C21: runCommand() never rejects, and a command that is none of pwd, echo,
\* ls, cat or a package install returns an output that holds 'executed
\* (browser polyfill)' and leaves the file map unchanged.
C21_RunCommandNeverRejects ==
    (lastCall.op = "runCommand") =>
        /\ lastCall.result.outcome = "resolved"
        /\ ~KnownCommand(lastCall.args[1]) =>
               /\ Contains(lastCall.result.value.output,
                      <<"e", "x", "e", "c", "u", "t", "e", "d", " ", "(", "b", "r", "o", "w",
                        "s", "e", "r", " ", "p", "o", "l", "y", "f", "i", "l", "l", ")">>)
               /\ files = lastCall.before
               /\ lastCall.log = <<>>

\* The same for every command but a package install into a manifest that
\* parses to null.
C21_ButNullManifest ==
    ~C15_NullManifest => C21_RunCommandNeverRejects

\* An unknown command was acknowledged.
C21_Witness ==
    /\ lastCall.op = "runCommand"
    /\ ~KnownCommand(lastCall.args[1])
    /\ lastCall.result.outcome = "resolved"
    /\ files = lastCall.before
    /\ files # EmptyMap

\* --------------------------------------- the claims on SandpackFileWatcher
\* The keys an event of a type lists, going from the map P to the map C.
Category(type, P, C) ==
    CASE type = "add" -> DOMAIN C \ DOMAIN P
      [] type = "change" -> {k \in DOMAIN C \cap DOMAIN P : C[k] # P[k]}
      [] type = "remove" -> DOMAIN P \ DOMAIN C

\* The types of the events due, in the order add, change, remove.
KindsDue(P, C) ==
    SelectSeq(<<"add", "change", "remove">>, LAMBDA t : Category(t, P, C) # {})

\* The events are the ones due from P to C: one of each type due, in order,
\* each listing exactly its keys, once each.
EventsDue(events, P, C) ==
    /\ Len(events) = Len(KindsDue(P, C))
    /\ \A j \in 1..Len(events) :
           /\ events[j].type = KindsDue(P, C)[j]
           /\ {events[j].paths[x] : x \in 1..Len(events[j].paths)}
                  = Category(events[j].type, P, C)
           /\ Len(events[j].paths) = Cardinality(Category(events[j].type, P, C))

\* C22: on a poll tick, with P the stored snapshot and C the current file
\* map, every registered callback gets one 'add' event with exactly the keys
\* in C and not in P if there are any, one 'change' event with exactly the
\* keys in both with different values if any, one 'remove' event with
\* exactly the keys in P and not in C if any, in that order and nothing
\* else; afterwards the stored snapshot equals C.
C22_TickEvents ==
    (tick.n = 1) =>
        /\ DOMAIN tick.out.delivered = 1..tick.callbacks
        /\ \A i \in 1..tick.callbacks : EventsDue(tick.out.delivered[i], tick.prev, tick.cur)
        /\ tick.snapshot = tick.cur

\* A tick gave two callbacks a 'change' event and an 'add' event.
C22_Witness ==
    /\ tick.n = 1
    /\ tick.callbacks = 2
    /\ Len(tick.out.delivered[2]) = 2
    /\ tick.out.delivered[2][1].type = "add"
    /\ tick.out.delivered[2][2].type = "change"

\* ------------------------------------------- the claims on the heads stacks
\* The entries of the undo stack and of the redo stack.
StackEntries ==
    {undoStack[i] : i \in 1..Len(undoStack)} \cup {redoStack[i] : i \in 1..Len(redoStack)}

\* C30: every entry of the undo stack and of the redo stack is a heads value
\* the manager observed earlier as the document's heads, at construction or
\* in a change notification, and names changes that are in the document's
\* history; none is synthesized.
C30_StackEntriesObserved ==
    \A e \in StackEntries :
        /\ e \in observed
        /\ \A i \in 1..Len(e) : e[i] \in 1..Len(history)

\* Both stacks hold entries after an undo, whose own change the manager did
\* not observe.
C30_Witness ==
    /\ Len(undoStack) > 0
    /\ Len(redoStack) > 0
    /\ lastOp = "undo"
    /\ \E k \in 1..Len(history) : <<k>> \notin observed

\* ------------------------------------------- the claims on SandboxManager
\* The last operation restored a snapshot that is in the history.
Restored ==
    /\ mgrCall.op = "restoreSnapshot"
    /\ mgr.handle
    /\ mgrCall.args[1] \in 1..mgrCall.len

\* C23: after restoreSnapshot(id) with an id of the history, the document's
\* files map and the manager's files map both equal the snapshot's file map:
\* no key absent from the snapshot is left and every key of the snapshot is
\* there with the snapshot's content, the empty text included.
C23_RestoreExact ==
    Restored =>
        /\ DocFiles(mgr) = mgr.history[mgrCall.args[1]].files
        /\ mgr.files = mgr.history[mgrCall.args[1]].files

\* A snapshot with a file that holds the empty text was restored over a
\* document in which that file held something else.
C23_Witness ==
    /\ Restored
    /\ \E k \in DOMAIN mgr.files :
           /\ mgr.files[k] = Text("")
           /\ Lookup(mgrCall.docFiles, k) # Text("")
    /\ DocFiles(mgr) = mgr.files

\* What getHistory() returned is still returned, entry for entry, at the same
\* positions.
HistoryKept ==
    /\ Len(getHistory(mgr')) >= Len(getHistory(mgr))
    /\ SubSeq(getHistory(mgr'), 1, Len(getHistory(mgr))) = getHistory(mgr)

\* The step is a restoreSnapshot() of a snapshot that is in the history.
RestoreStep ==
    /\ mgrCall'.op = "restoreSnapshot"
    /\ mgr.handle
    /\ mgrCall'.args[1] \in 1..Len(mgr.history)

\* The step added one entry at the end, for the revert.
RevertAdded ==
    /\ Len(mgr'.history) = Len(mgr.history) + 1
    /\ Last(mgr'.history).message = RevertTo(mgrCall'.args[1])

\* C24 as stated: the history is append-only, and every restoreSnapshot() of
\* a snapshot of the history adds a new entry at the end.
C24_EveryRestoreAppends ==
    [][HistoryKept /\ (RestoreStep => RevertAdded)]_vars

\* The snapshot asks for no operation on the document: the two file maps are
\* equal and hold no file with the empty text.
NothingToRevert(f, snapshotFiles) ==
    /\ f = snapshotFiles
    /\ \A k \in DOMAIN f : f[k] # Text("")

\* C24: the history is append-only: every entry getHistory() returned is
\* still returned with the same id, message and file map at the same
\* position; a restoreSnapshot() adds a 'Revert to' entry at the end, unless
\* the snapshot's file map equals the document's and holds no empty file, and
\* then it adds none; none removes or rewinds earlier entries.
C24_AppendOnly ==
    [][/\ HistoryKept
       /\ RestoreStep =>
              IF NothingToRevert(DocFiles(mgr), mgr.history[mgrCall'.args[1]].files)
              THEN mgr'.history = mgr.history
              ELSE RevertAdded]_vars

\* A snapshot older than the latest change was restored: the history is one
\* entry longer.
C24_Witness ==
    /\ Restored
    /\ mgrCall.args[1] < mgrCall.len
    /\ Len(mgr.history) = mgrCall.len + 1
    /\ Last(mgr.history).message = RevertTo(mgrCall.args[1])

\* A snapshot equal to the document's files was restored: no entry was added.
C24_NothingToRevert ==
    /\ Restored
    /\ Len(mgr.history) = mgrCall.len

\* C25: after a restoreSnapshot() of a snapshot of the history, the history
\* holds a snapshot entry that the restore created by itself right before
\* restoring: the first entry after those that were there before the call,
\* with a snapshot message and the files map the document had before the call.
C25_RestoreTakesSnapshot ==
    Restored =>
        /\ Len(mgr.history) > mgrCall.len
        /\ mgr.history[mgrCall.len + 1].message.kind = "text"
        /\ mgr.history[mgrCall.len + 1].files = mgrCall.docFiles

\* The last operation was a checkoutAndSave() of a snapshot that is in the
\* history.
CheckedOut ==
    /\ mgrCall.op = "checkoutAndSave"
    /\ mgr.handle
    /\ mgrCall.args[1] \in 1..mgrCall.len

C27_DependenciesFromManifest ==
    mgr.dependencies =
        IF ManifestContent(mgr.files).kind = "undefined" THEN EmptyMap
        ELSE parseDependencies(ManifestContent(mgr.files))

\* C28: with a persistence handle, after every operation the manager's files
\* map equals the files map of the document.
C28_FilesFollowDocument ==
    mgr.handle => mgr.files = DocFiles(mgr)

\* A change made elsewhere reached the document and the manager's files map
\* followed it.
C28_Witness ==
    /\ mgr.handle
    /\ mgrCall.op = "change"
    /\ DocFiles(mgr) # mgrCall.docFiles
    /\ mgr.files = DocFiles(mgr)

\* ------------------------------------------ the claims on merged changes
\* Changes a and b were made side by side: neither had seen the other.
Concurrent(a, b) == a # b /\ a.id \notin b.seen /\ b.id \notin a.seen

C40_MirrorEqualsFiles ==
    (Restored \/ (mgr.handle /\ mgrCall.op = "change")) => mgr.zen = mgr.files

\* ------------------------------------------- the claims on addDependency
\* The last operation was addDependency(name, version).
Added == lastCall.op = "addDependency"

\* The version the call asked for.
AskedVersion == IF lastCall.args[2] = NoVersion THEN LatestLiteral ELSE lastCall.args[2]

\* What C31 says of a call of addDependency().
AddedAsClaimed ==
    LET was == Lookup(lastCall.before, PackageJsonPath)
        again == addDependency(Env(<<>>, TRUE), lastCall.args[1], lastCall.args[2])
    IN  /\ lastCall.result.outcome = "resolved"
        /\ lastCall.result.value =
               Put(parseDependencies(was), lastCall.args[1], AskedVersion)
        /\ PackageJsonPath \in DOMAIN files
        /\ parseDependencies(files[PackageJsonPath]) = lastCall.result.value
        /\ files[PackageJsonPath].kind = "json"
        /\ was.kind = "json" => files[PackageJsonPath].json.scalars = was.json.scalars
        /\ \A k \in (DOMAIN files \cup DOMAIN lastCall.before) \ {PackageJsonPath} :
               Lookup(files, k) = Lookup(lastCall.before, k)
        /\ again.result = lastCall.result
        /\ again.files = files

\* C31: addDependency(files, name, version) returns the manifest's previous
\* dependencies with name mapped to version ('latest' when left out), writes
\* at '/package.json' a manifest whose parsed dependencies are the returned
\* table, with the other fields of the manifest it found, and a second call
\* with the same arguments returns the same table and leaves the same
\* manifest.
C31_AddDependency == Added => AddedAsClaimed

\* The same for the manifests that are JSON objects, missing, or no JSON.
C31_ObjectManifest ==
    (Added /\ Lookup(lastCall.before, PackageJsonPath).json.type # "null") => AddedAsClaimed

\* A dependency was added with the default version to a manifest that had
\* another one, printed without indentation.
C31_Witness ==
    /\ Added
    /\ lastCall.args[2] = NoVersion
    /\ Lookup(lastCall.before, PackageJsonPath).kind = "json"
    /\ Lookup(lastCall.before, PackageJsonPath).indent = 0
    /\ lastCall.result.outcome = "resolved"
    /\ Cardinality(DOMAIN lastCall.result.value) = 2

\* addDependency() was called on a manifest that is the JSON null.
C31_NullManifest ==
    /\ Added
    /\ Lookup(lastCall.before, PackageJsonPath).json.type = "null"

\* ------------------------------------- the claims on the shell commands
\* The first word of a command, and the words runCommand() answers without
\* touching the files.
FirstWord(command) == IF Words(command) = <<>> THEN <<>> ELSE Words(command)[1]
ReadOnlyWords == {<<"p", "w", "d">>, <<"e", "c", "h", "o">>, <<"l", "s">>, <<"c", "a", "t">>}

\* The text with one quote taken off its start and one off its end.
Unquoted(t) ==
    LET from == IF t # <<>> /\ t[1] \in {"'", "\""} THEN 2 ELSE 1
        rest == SubSeq(t, from, Len(t))
        to == IF rest # <<>> /\ rest[Len(rest)] \in {"'", "\""} THEN Len(rest) - 1
              ELSE Len(rest)
    IN  SubSeq(rest, 1, to)

\* What C32 says of a runCommand() whose command starts with one of those
\* words.
ReadOnlyAsClaimed ==
    LET trimmed == Trim(lastCall.args[1])
    IN  /\ lastCall.log = <<>>
        /\ files = lastCall.before
        /\ StartsWith(trimmed, <<"e", "c", "h", "o", " ">>) =>
               /\ lastCall.result.outcome = "resolved"
               /\ lastCall.result.value.output =
                      Unquoted(SubSeq(trimmed, 6, Len(trimmed))) \o <<"\n">>

\* C32: a runCommand() whose command has pwd, echo, ls or cat as its first
\* word invokes no callback and leaves the file map as it was, whatever
\* follows the word; for echo the output is the text after 'echo ' without
\* one quote at its start and one at its end, and a line end.
C32_ReadOnlyCommands ==
    (lastCall.op = "runCommand" /\ FirstWord(lastCall.args[1]) \in ReadOnlyWords)
        => ReadOnlyAsClaimed

\* The same for the commands that hold no package install.
C32_NoInstallInside ==
    (/\ lastCall.op = "runCommand"
     /\ FirstWord(lastCall.args[1]) \in ReadOnlyWords
     /\ ~npmInstallMatch(lastCall.args[1]).matched) => ReadOnlyAsClaimed

\* An echo of a quoted text was answered.
C32_Witness ==
    /\ lastCall.op = "runCommand"
    /\ lastCall.args[1] = <<"e", "c", "h", "o", " ", "'", "h", "i", "'">>
    /\ lastCall.result.outcome = "resolved"
    /\ lastCall.result.value.output = <<"h", "i", "\n">>

\* An echo of a text that reads as a package install was run.
C32_EchoedInstall ==
    /\ lastCall.op = "runCommand"
    /\ FirstWord(lastCall.args[1]) = <<"e", "c", "h", "o">>
    /\ npmInstallMatch(lastCall.args[1]).matched
    /\ lastCall.log # <<>>

\* ------------------------------- the claims on the paths that exist
\* The operations say that nothing is at path p.
Gone(p) ==
    /\ readFile(Env(<<>>, TRUE), p).result.outcome = "rejected"
    /\ statFile(Env(<<>>, TRUE), p).result.outcome = "rejected"
    /\ \A keys \in Orders(files) : listFiles(Env(keys, TRUE), p).result.value = <<>>

\* statFile(d) answers 'directory' when listFiles(d) has entries.
ListedIsDirectory(d) ==
    (\E keys \in Orders(files) : listFiles(Env(keys, TRUE), d).result.value # <<>>)
        => /\ statFile(Env(<<>>, TRUE), d).result.outcome = "resolved"
           /\ statFile(Env(<<>>, TRUE), d).result.value.type = "directory"

\* What C39 says of a state.
PathsAgree ==
    /\ lastCall.op = "deleteFiles" => Gone(lastCall.args[1])
    /\ \A d \in AdapterPaths : ListedIsDirectory(d)

\* C39: the operations agree on the paths that exist, whether the keys of
\* the file map start with '/' or not: after deleteFiles(p), readFile(p) and
\* statFile(p) reject and listFiles(p) is empty; and statFile(d) answers
\* 'directory' whenever listFiles(d) is not empty.
C39_PathsAgree == PathsAgree

\* The keys of the map all start with '/' and none is a directory of another.
TreeOfSlashKeys(f) ==
    \A k \in DOMAIN f :
        /\ k[1] = "/"
        /\ \A j \in DOMAIN f : ~StartsWith(j, k \o <<"/">>)

\* The same for the file maps whose keys all start with '/' and hold no file
\* at the path of a directory.
C39_TreeOfSlashKeys ==
    (TreeOfSlashKeys(files) /\ TreeOfSlashKeys(lastCall.before)) => PathsAgree

\* A directory with files, all keys starting with '/', was deleted.
C39_Witness ==
    /\ lastCall.op = "deleteFiles"
    /\ TreeOfSlashKeys(files) /\ TreeOfSlashKeys(lastCall.before)
    /\ Len(lastCall.log) >= 1
    /\ lastCall.args[1] = <<"/", "s">>

\* deleteFiles(p) left the file that readFile(p) finds under the key without
\* the leading '/'.
C39_BareKeyLeft ==
    /\ lastCall.op = "deleteFiles"
    /\ lastCall.log = <<>>
    /\ readFile(Env(<<>>, TRUE), lastCall.args[1]).result.outcome = "resolved"

\* ------------------------------------ the claims on consecutive ticks
\* C34: the events of a tick are the ones due from the file map at the tick
\* before (or at start()) to the file map at the tick, whatever happened to
\* the map in between: none when the two maps are equal, and every path
\* whose value differs in exactly one event, the others in none.
C34_ConsecutiveTicks ==
    (tick.n = 1) =>
        /\ EventsDue(tick.out.emitted, tick.since, tick.cur)
        /\ \A i \in 1..tick.callbacks : EventsDue(tick.out.delivered[i], tick.since, tick.cur)
        /\ tick.since = tick.cur => tick.out.emitted = <<>>

\* Files were written or deleted and restored between two ticks: the tick
\* found the map of the tick before and emitted nothing.
C34_Witness ==
    /\ tick.n = 1
    /\ tick.touched
    /\ tick.since = tick.cur
    /\ tick.cur # EmptyMap
    /\ tick.callbacks > 0
    /\ tick.out.emitted = <<>>

\* ------------------------------------- the claims on clear() and the flag
\* clear() has just completed.
Cleared == done.outcome = "returned" /\ done.call.op = "clear"

\* Nothing is connected.
Unset == provider = 0 /\ adapter = 0 /\ terminalSessions = 0

\* The step is a call of start() (one that returns at once included) or of
\* startSandpackSession().
StartCalled ==
    \/ \E c \in Calls : calls[c].op = "idle" /\ calls'[c].op = "start"
    \/ done'.outcome # "none" /\ done'.call.op = "start" /\ done'.call.pc = "idle"
    \/ adapter = 0 /\ adapter' = -1

\* C37: once clear() has completed, provider and adapter are null and
\* terminalSessions is empty, and they stay so until start() or
\* startSandpackSession() is called, also when a start() was awaiting a
\* connection attempt or a retry delay while clear() ran: the step after
\* clear() sets none of them unless it is such a call.
C37_ClearedStaysUnset ==
    [][Cleared => (Unset /\ (Unset' \/ StartCalled))]_vars

\* clear() completed while a start() was awaiting its connection attempt.
C37_ClearedInFlight ==
    /\ Cleared
    /\ \E c \in Calls : calls[c].op = "start" /\ calls[c].pc = "create"

\* A loop of start() is running.
LoopRunning == \E c \in Calls : InLoop(c)

\* C38: isConnecting is true only while a start() is in progress; a start()
\* that returns or rejects leaves it false (when no other is in progress);
\* and no reconnect() or clear() sets it to false while a loop of start() is
\* still running.
C38_ConnectingFlag ==
    [][/\ isConnecting' => LoopRunning'
       /\ (done'.outcome # "none" /\ done'.call.op = "start" /\ ~LoopRunning')
              => ~isConnecting'
       /\ (done'.outcome # "none" /\ done'.call.op \in {"clear", "reconnect"}
           /\ LoopRunning')
              => (isConnecting => isConnecting')]_vars

\* clear() completed while a loop of start() goes on, and the flag is false.
C38_ClearedWhileConnecting ==
    /\ Cleared
    /\ LoopRunning
    /\ ~isConnecting

\* ------------------------------- the claims on applyPatch and on failures
\* The text t with value put in at index idx, and without the n characters
\* from index idx on.
TextWith(t, idx, value) == SubSeq(t, 1, idx) \o value \o SubSeq(t, idx + 1, Len(t))
TextWithout(t, idx, n) == SubSeq(t, 1, idx) \o SubSeq(t, idx + n + 1, Len(t))

\* applyPatch() leaves the text the 'splice' patches at path p describe.
SplicesApplied(p) ==
    LET t == Content(Last(history)[p])
    IN  \A idx \in 0..Len(t), ch \in Chars :
            Content(applyPatch(Draft(St),
                               [action |-> "splice", path |-> <<"files", p, idx>>,
                                value |-> <<ch>>, length |-> 0]).files[p])
                = TextWith(t, idx, <<ch>>)

\* applyPatch() leaves the text the 'del' patches at path p describe.
DelsApplied(p) ==
    LET t == Content(Last(history)[p])
    IN  \A idx \in 0..(Len(t) - 1) :
            \A n \in 1..(Len(t) - idx) :
                Content(applyPatch(Draft(St),
                                   [action |-> "del", path |-> <<"files", p, idx>>,
                                    value |-> <<>>, length |-> n]).files[p])
                    = TextWithout(t, idx, n)

\* C33: a patch whose path ends in a character index below a text is applied
\* to that text by position: after a 'splice' patch the text has the value
\* at the index, after a 'del' patch it lacks the characters the patch names.
C33_TextLeafPatch ==
    \A p \in Paths : Last(history)[p] # NoFile => (SplicesApplied(p) /\ DelsApplied(p))

\* The same for the 'splice' patches alone.
C33_SpliceInserts ==
    \A p \in Paths : Last(history)[p] # NoFile => SplicesApplied(p)

\* A file holds a text that has a character to insert before and after.
C33_Witness ==
    \E p \in Paths : Last(history)[p] # NoFile /\ Len(Content(Last(history)[p])) >= 1

\* An edit the document's handle has announced: the heads before it are on
\* the undo stack and the redo stack is empty.
Recorded ==
    /\ undoStack' = Append(undoStack, currentHeads)
    /\ redoStack' = <<>>
    /\ currentHeads' = getHeads(history')

\* C35: isUndoingOrRedoing is false whenever no undo() or redo() is running,
\* also after one whose patch application threw; an edit that follows such a
\* failure is recorded as any other.
C35_FlagLowered ==
    [][/\ ~isUndoingOrRedoing'
       /\ (lastOp \in {"undo threw", "redo threw"} /\ lastOp' \in EditOps)
              => Recorded]_vars

\* An undo() threw while it applied its patches: it has returned with the
\* flag lowered, the entry it popped on the redo stack's side.
C35_Witness ==
    /\ lastOp = "undo threw"
    /\ ~isUndoingOrRedoing
    /\ Len(redoStack) >= 1

\* The step is an undo() or a redo() with the document and the current heads
\* at hand, or with one of them missing.
AvailableStep == lastOp' \in {"undo", "redo", "undo threw", "redo threw"}
UnavailableStep == lastOp' \in {"undo unavailable", "redo unavailable"}

StackEntriesKept ==
    Len(undoStack') + Len(redoStack') = Len(undoStack) + Len(redoStack)

\* C36: no undo() and no redo() loses a stack entry, the calls made while
\* the document is unavailable or the current heads are null included: the
\* two stacks hold as many entries after the call as before it.
C36_StackEntriesKept ==
    [][(AvailableStep \/ UnavailableStep) => StackEntriesKept]_vars

\* The same for the calls made with the document and the current heads at
\* hand.
C36_WhenAvailable ==
    [][AvailableStep => StackEntriesKept]_vars

\* An undo() moved an entry from one stack to the other.
C36_Witness ==
    /\ lastOp = "undo"
    /\ Len(redoStack) >= 1
    /\ Len(undoStack) >= 1

\* An undo() found the document or the current heads missing.
C36_Unavailable == lastOp = "undo unavailable"

====
